---- MODULE Spec2Model ----
(***************************************************************************)
(* Trade-war simulation (tradewar package): the simulation engine, its     *)
(* state ledger and the economic update functions, as a state machine.     *)
(*                                                                         *)
(* Numbers.  The program computes in binary floating point; the model     *)
(* computes in fixed point on integers, rounding every quotient down:     *)
(*   rates, growth rates, magnitudes ... 1 unit = 0.0001  (RS = 10000)     *)
(*   GDP ................................ 1 unit = 0.0001 trillion         *)
(*   trade volumes and values ........... 1 unit = 0.000001 trillion       *)
(*   confidence indices ................. 1 unit = 0.01 index point        *)
(* The pseudo-random generators are explicit state (a linear congruential  *)
(* stream stands for the Mersenne Twister): a draw is a function of the    *)
(* generator's state, and the seed is an input.                            *)
(***************************************************************************)
EXTENDS Integers, Sequences, FiniteSets, TLC

(***************************************************************************)
(* Bounds of the model.                                                    *)
(***************************************************************************)
MaxSteps == 3          \* steps one engine performs in a run of the model
MaxExplicitSteps == 1  \* of them, step(year, quarter) calls from outside a run
MaxImpactCalls == 2    \* _apply_actions + _apply_economic_impacts call pairs
MaxLogged == 12        \* add_action calls in a run of the ledger model
MaxLedgerCalls == 4    \* calls on the policy and event ledger in a run
MaxTime == 5           \* the latest step index a ledger run finalizes at
MaxTariffCalls == 2    \* tariff policies imposed in a run of the tariff model
MaxTradeUpdates == 2   \* update_trade_balance calls in a run of the trade model
MaxEventCalls == 3     \* generate_events calls on one EventGenerator
MaxQuarters == 5       \* quarters a state is taken through in the stability model
MaxFlowActions == 2    \* _apply_actions calls in a run of the flow model
MaxFlowQuarters == 2   \* quarters a state is taken through in the flow model
MaxDecisions == 3      \* decide_action calls in a run of the agent model
MaxOtherSteps == 2     \* steps of the second engine in a run of the two-engine model
MaxApiCalls == 5       \* requests in a run of the API model
MaxRuleSteps == 3      \* steps of an engine with rule-based agents

(***************************************************************************)
(* Arithmetic helpers.                                                     *)
(***************************************************************************)
RS == 10 ^ 4

Min(a, b) == IF a < b THEN a ELSE b

Max(a, b) == IF a > b THEN a ELSE b

Abs(a) == IF a < 0 THEN -a ELSE a

\* floor(a * b / c) for c > 0, computed without leaving 32 bits
MulDiv(a, b, c) == (a \div c) * b + (((a % c) * b) \div c)

RECURSIVE SumSet(_, _)
SumSet(f, S) == IF S = {} THEN 0
                ELSE LET x == CHOOSE y \in S : TRUE
                     IN f[x] + SumSet(f, S \ {x})

\* sum(d.values()) of a dict
SumFn(f) == SumSet(f, DOMAIN f)

RECURSIVE SumSeq(_)
SumSeq(q) == IF q = <<>> THEN 0 ELSE Head(q) + SumSeq(Tail(q))

Range(q) == {q[i] : i \in DOMAIN q}

\* largest r with r * r <= n, by bisection on lo * lo <= n < hi * hi
RECURSIVE ISqrtBetween(_, _, _)
ISqrtBetween(n, lo, hi) ==
    IF hi - lo <= 1 THEN lo
    ELSE LET mid == (lo + hi) \div 2
         IN IF mid * mid <= n THEN ISqrtBetween(n, mid, hi)
            ELSE ISqrtBetween(n, lo, mid)

ISqrt(n) == ISqrtBetween(n, 0, 46340)

\* largest r with r^5 <= n^2, i.e. floor(n ^ 0.4), for 0 <= n <= 3000
IPow04(n) == CHOOSE r \in 0..25 :
                /\ r * r * r * r * r <= n * n
                /\ (r + 1) * (r + 1) * (r + 1) * (r + 1) * (r + 1) > n * n

EmptyFn == [x \in {} |-> 0]

\* d[k] = v on a dict
Put(f, k, v) == [x \in (DOMAIN f) \cup {k} |-> IF x = k THEN v ELSE f[x]]

\* d.pop(k, None)
Pop(f, k) == [x \in (DOMAIN f) \ {k} |-> f[x]]

\* d.get(k, default)
Get(f, k, default) == IF k \in DOMAIN f THEN f[k] ELSE default

(***************************************************************************)
(* The data model (economics/models.py).                                   *)
(***************************************************************************)
\* names with an agent class registered in AgentFactory.agent_classes
RegisteredNames == {"US", "China", "Indonesia"}

\* the names a caller may pass; "ZeroLand" has no agent class
AllNames == RegisteredNames \cup {"ZeroLand"}

\* target_country = None
NoTarget == "None"

ActionType == {"tariff_increase", "tariff_decrease", "tariff_adjustment",
               "export_subsidy", "import_quota", "investment",
               "currency_devaluation", "status_quo", "tech_export_control",
               "industrial_subsidy", "supply_chain_diversification",
               "green_tech_investment", "friend_shoring", "data_sovereignty"}

\* fresh_target: target_country is a Country(name=...) made for the action
\* (GDP 0.0), as every agent makes it, and not one of the engine's countries
EconomicAction(country, action_type, target_country, sectors, magnitude) ==
    [country |-> country, action_type |-> action_type,
     target_country |-> target_country, sectors |-> sectors,
     magnitude |-> magnitude, fresh_target |-> TRUE]

\* a TariffPolicy object; id is the object's identity (Python's id())
TariffPolicy(id, source_country, target_country, sector_rates, duration_quarters) ==
    [id |-> id, source_country |-> source_country,
     target_country |-> target_country, sector_rates |-> sector_rates,
     duration_quarters |-> duration_quarters]

TradeFlow(exporter, importer, year, quarter, sector_volumes, sector_values) ==
    [exporter |-> exporter, importer |-> importer, year |-> year,
     quarter |-> quarter, sector_volumes |-> sector_volumes,
     sector_values |-> sector_values]

\* TradeFlow.total_value
total_value(flow) == SumFn(flow.sector_values)

(***************************************************************************)
(* SimulationState (simulation/state.py) as a record; its methods are      *)
(* operators from a state record to the state record after the call.       *)
(***************************************************************************)
\* SimulationState(countries=..., year=..., quarter=...) after __post_init__;
\* gdp, currency_value and unemployment_rate are the Country objects' fields,
\* the latter two as tests/conftest.py sets them
SimulationState(countries, gdp, year, quarter) ==
    [countries |-> countries,
     gdp |-> gdp,
     currency_value |-> [n \in Range(countries) |-> RS],
     unemployment_rate |-> [n \in Range(countries) |->
                              IF n = "US" THEN 400
                              ELSE IF n = "Indonesia" THEN 600 ELSE 500],
     year |-> year,
     quarter |-> quarter,
     trade_flows |-> <<>>,
     economic_indicators |-> [n \in Range(countries) |-> <<>>],
     active_tariff_policies |-> <<>>,
     recent_actions |-> <<>>,
     all_actions |-> <<>>,
     active_events |-> <<>>,
     policy_start_steps |-> EmptyFn,
     event_start_steps |-> EmptyFn,
     gdp_snapshots |-> [n \in Range(countries) |-> <<>>]]

\* the last n elements of a list: q[-n:]
LastN(q, n) == IF Len(q) <= n THEN q ELSE SubSeq(q, Len(q) - n + 1, Len(q))

add_action_keep_first(s, action) ==
    [s EXCEPT !.recent_actions =
                 IF Len(s.recent_actions) >= 10 THEN s.recent_actions
                 ELSE Append(s.recent_actions, action),
              !.all_actions = Append(s.all_actions, action)]

add_action(s, action) ==
    LET recent == Append(s.recent_actions, action)
    IN [s EXCEPT !.recent_actions = IF Len(recent) > 10 THEN LastN(recent, 10)
                                    ELSE recent,
                 !.all_actions = Append(s.all_actions, action)]

\* current_step = self.year * 4 + self.quarter
CurrentStep(s) == s.year * 4 + s.quarter

add_tariff_policy(s, policy) ==
    [s EXCEPT !.active_tariff_policies = Append(@, policy),
              !.policy_start_steps = Put(@, policy.id, CurrentStep(s))]

\* events is a list of event identities (the catalog's EventConfig objects)
RECURSIVE add_events(_, _)
add_events(s, events) ==
    IF events = <<>> THEN s
    ELSE add_events([s EXCEPT !.active_events = Append(@, Head(events)),
                              !.event_start_steps = Put(@, Head(events), CurrentStep(s))],
                    Tail(events))

\* impact: [policy, exporter_gdp_impact, importer_gdp_impact, ...], the GDP
\* impacts in GDP units
apply_tariff_impact(s, impact) ==
    LET exporter == impact.policy.target_country
        importer == impact.policy.source_country
    IN [s EXCEPT !.gdp = [n \in DOMAIN s.gdp |->
                            IF n = exporter THEN s.gdp[n] + impact.exporter_gdp_impact
                            ELSE IF n = importer THEN s.gdp[n] + impact.importer_gdp_impact
                            ELSE s.gdp[n]]]

\* sum of total_value over the flows from exporter to importer
RECURSIVE FlowValueSum(_, _, _)
FlowValueSum(flows, exporter, importer) ==
    IF flows = <<>> THEN 0
    ELSE (IF Head(flows).exporter = exporter /\ Head(flows).importer = importer
          THEN total_value(Head(flows)) ELSE 0)
         + FlowValueSum(Tail(flows), exporter, importer)

get_trade_balance_exports_only(s, country1, country2) ==
    FlowValueSum(s.trade_flows, country1, country2)

get_trade_balance(s, country1, country2) ==
    LET exports == FlowValueSum(s.trade_flows, country1, country2)
        imports == FlowValueSum(s.trade_flows, country2, country1)
    IN exports - imports

get_active_tariff_policies(s, source_country, target_country) ==
    SelectSeq(s.active_tariff_policies,
              LAMBDA p : p.source_country = source_country
                         /\ p.target_country = target_country)

(***************************************************************************)
(* Pseudo-random generators: random.seed / random.uniform on the process-  *)
(* wide generator, and EventGenerator.random.  A generator is its state.   *)
(***************************************************************************)
RngModulus == 2 ^ 16

RngMultiplier == 25173

RngIncrement == 13849

\* random.seed(seed), random.Random(seed)
RngSeed(seed) == seed % RngModulus

\* the generator's state after one draw
RngNext(x) == (x * RngMultiplier + RngIncrement) % RngModulus

\* the generator's state after n draws
RECURSIVE RngSkip(_, _)
RngSkip(x, n) == IF n = 0 THEN x ELSE RngSkip(RngNext(x), n - 1)

\* the value random.uniform(lo, hi) returns when the draw leaves state x
Uniform(lo, hi, x) == lo + (((hi - lo) * x) \div (RngModulus - 1))

(***************************************************************************)
(* economics/tariff.py                                                     *)
(***************************************************************************)
\* a quotient rounded away from zero: a signed delta keeps the sign (and
\* the zero) the program computes
DivAway(a, c) == IF a >= 0 THEN (a + c - 1) \div c ELSE -(((-a) + c - 1) \div c)

\* the flows exporter -> importer, in list order
FlowsBetween(s, exporter, importer) ==
    SelectSeq(s.trade_flows,
              LAMBDA f : f.exporter = exporter /\ f.importer = importer)

\* f is later than g by (year, quarter)
Later(f, g) == f.year > g.year \/ (f.year = g.year /\ f.quarter > g.quarter)

\* max(flows, key=lambda flow: (flow.year, flow.quarter)): the first flow
\* of the list that no other flow is later than
LatestFlow(flows) ==
    LET best == CHOOSE i \in DOMAIN flows :
                   /\ \A j \in DOMAIN flows : ~Later(flows[j], flows[i])
                   /\ \A j \in 1..(i - 1) : Later(flows[i], flows[j])
    IN flows[best]

\* sqrt(gdp_a * gdp_b) * 0.001 in volume units
EstimatedTradeVolume(gdp_a, gdp_b) ==
    ISqrt(Max(0, (gdp_a \div 100) * (gdp_b \div 100))) * 10

\* trade_volume_change and price_effects of calculate_tariff_impact;
\* elasticity_multiplier is a whole number (1 is the default 1.0)
TariffVolumeChange_unsigned(s, policy, imposing, targeted, imposing_gdp, targeted_gdp, elasticity_multiplier) ==
    LET trade_flows == FlowsBetween(s, targeted, imposing)
        rates == policy.sector_rates
        n == Cardinality(DOMAIN rates)
    IN IF trade_flows = <<>>
       THEN LET est == EstimatedTradeVolume(targeted_gdp, imposing_gdp)
            IN [sec \in DOMAIN rates |-> DivAway((est \div n) * Abs(rates[sec]) * 2, RS) * (-1)]
       ELSE LET latest_flow == LatestFlow(trade_flows)
            IN [sec \in DOMAIN rates |->
                  LET sector_volume == Get(latest_flow.sector_volumes, sec,
                                           total_value(latest_flow) \div n)
                  IN DivAway(sector_volume * (-2 * elasticity_multiplier)
                                * 7 * Abs(rates[sec]), 10 * RS)]

TariffVolumeChange(s, policy, imposing, targeted, imposing_gdp, targeted_gdp, elasticity_multiplier) ==
    LET trade_flows == FlowsBetween(s, targeted, imposing)
        rates == policy.sector_rates
        n == Cardinality(DOMAIN rates)
    IN IF trade_flows = <<>>
       THEN LET est == EstimatedTradeVolume(targeted_gdp, imposing_gdp)
            IN [sec \in DOMAIN rates |-> DivAway(-(est \div n) * rates[sec] * 2, RS)]
       ELSE LET latest_flow == LatestFlow(trade_flows)
            IN [sec \in DOMAIN rates |->
                  LET sector_volume == Get(latest_flow.sector_volumes, sec,
                                           total_value(latest_flow) \div n)
                  IN DivAway(sector_volume * (-2 * elasticity_multiplier)
                                * 7 * rates[sec], 10 * RS)]

\* volume units to GDP units
VolumeToGdp(v) == DivAway(v, 100)

\* calculate_tariff_impact(state, policy, imposing_country, targeted_country);
\* the two GDPs are those of the Country objects passed in
calculate_tariff_impact(s, policy, imposing, targeted, imposing_gdp, targeted_gdp, elasticity_multiplier) ==
    LET trade_volume_change ==
            TariffVolumeChange(s, policy, imposing, targeted, imposing_gdp,
                               targeted_gdp, elasticity_multiplier)
        rates == policy.sector_rates
        total_export_loss == SumFn(trade_volume_change)
        revenue_by_sector == [sec \in DOMAIN rates |->
                                 DivAway(-trade_volume_change[sec] * rates[sec], RS)]
        tariff_revenue == SumFn(revenue_by_sector)
        consumer_surplus_loss == DivAway(tariff_revenue * 3, 10)
    IN [policy |-> policy,
        exporter_gdp_impact |-> VolumeToGdp(DivAway(total_export_loss * 8, 10)),
        importer_gdp_impact |-> VolumeToGdp(tariff_revenue - consumer_surplus_loss),
        trade_volume_change |-> trade_volume_change,
        price_effects |-> [sec \in DOMAIN rates |-> DivAway(rates[sec] * 7, 10)]]

(***************************************************************************)
(* economics/trade_balance.py                                              *)
(***************************************************************************)
\* _get_country_sector_weights: (sector, weight) in the dict's order
_get_country_sector_weights(name) ==
    IF name = "US" THEN
        << <<"technology", 2500>>, <<"services", 2000>>, <<"manufacturing", 1500>>,
           <<"agriculture", 1000>>, <<"healthcare", 1000>>, <<"education", 500>>,
           <<"raw_materials", 500>>, <<"natural_resources", 500>>, <<"tourism", 500>> >>
    ELSE IF name = "China" THEN
        << <<"manufacturing", 3500>>, <<"technology", 2000>>, <<"raw_materials", 1000>>,
           <<"rare_earth_minerals", 500>>, <<"agriculture", 800>>, <<"services", 700>>,
           <<"healthcare", 500>>, <<"natural_resources", 500>>, <<"tourism", 500>> >>
    ELSE IF name = "Indonesia" THEN
        << <<"natural_resources", 2500>>, <<"agriculture", 2000>>,
           <<"manufacturing", 2000>>, <<"tourism", 1500>>, <<"raw_materials", 1000>>,
           <<"services", 500>>, <<"technology", 500>> >>
    ELSE
        << <<"manufacturing", 2500>>, <<"services", 2000>>, <<"agriculture", 1500>>,
           <<"natural_resources", 1500>>, <<"technology", 1000>>, <<"tourism", 1000>>,
           <<"healthcare", 500>> >>

\* _get_sector_price_elasticity, in tenths
_get_sector_price_elasticity(sector) ==
    CASE sector = "agriculture" -> -8
      [] sector = "manufacturing" -> -15
      [] sector = "technology" -> -20
      [] sector = "raw_materials" -> -6
      [] sector = "services" -> -18
      [] sector = "healthcare" -> -12
      [] sector = "education" -> -10
      [] sector = "tourism" -> -25
      [] sector = "natural_resources" -> -7
      [] sector = "rare_earth_minerals" -> -5
      [] OTHER -> -12

\* (gdp_a * gdp_b) ** 0.4 * 0.001 in volume units
TradeScale(gdp_a, gdp_b) ==
    IPow04(Max(0, ((gdp_a \div 100) * (gdp_b \div 100)) \div 10000)) * 1000

\* the per-sector loop of _create_baseline_trade_flow: two draws a sector
RECURSIVE BaselineSectors(_, _, _, _, _)
BaselineSectors(weights, total_volume, volumes, values, rng) ==
    IF weights = <<>> THEN [volumes |-> volumes, values |-> values, rng |-> rng]
    ELSE LET sector == Head(weights)[1]
             weight == Head(weights)[2]
             x1 == RngNext(rng)
             adjusted_weight == MulDiv(weight, RS + Uniform(-2000, 2000, x1), RS)
             volume == MulDiv(total_volume, adjusted_weight, RS)
             x2 == RngNext(x1)
             price_factor == RS + Uniform(-1000, 1000, x2)
         IN BaselineSectors(Tail(weights), total_volume,
                            Put(volumes, sector, volume),
                            Put(values, sector, MulDiv(volume, price_factor, RS)),
                            x2)

\* _create_baseline_trade_flow: the flow and the generator's state after it
_create_baseline_trade_flow(exporter, importer, exporter_gdp, importer_gdp, year, quarter, rng) ==
    LET trade_scale == TradeScale(exporter_gdp, importer_gdp)
        x0 == RngNext(rng)
        total_volume == MulDiv(trade_scale, RS + Uniform(-1000, 1000, x0), RS)
        r == BaselineSectors(_get_country_sector_weights(exporter), total_volume,
                             EmptyFn, EmptyFn, x0)
    IN [flow |-> TradeFlow(exporter, importer, year, quarter, r.volumes, r.values),
        rng |-> r.rng]

\* the flows exporter -> importer dated strictly before (year, quarter)
FlowsBefore(s, exporter, importer, year, quarter) ==
    SelectSeq(s.trade_flows,
              LAMBDA f : /\ f.exporter = exporter /\ f.importer = importer
                         /\ (f.year < year \/ (f.year = year /\ f.quarter < quarter)))

\* _get_previous_trade_flows: (c1 -> c2 flow, c2 -> c1 flow), the number of
\* baseline flows it had to synthesize, and the generator's state
_get_previous_trade_flows(s, country1, country2, year, quarter, rng) ==
    LET prev == IF quarter > 0 THEN <<year, quarter - 1>> ELSE <<year - 1, 3>>
        prev_yq == IF prev[1] < 0 THEN <<0, 0>> ELSE prev
        c1_to_c2_flows == FlowsBefore(s, country1, country2, year, quarter)
        c2_to_c1_flows == FlowsBefore(s, country2, country1, year, quarter)
        Found(first, second) ==
            [c1_to_c2_flow |-> first.flow, c2_to_c1_flow |-> second.flow,
             baselines |-> (IF c1_to_c2_flows = <<>> THEN 1 ELSE 0)
                           + (IF c2_to_c1_flows = <<>> THEN 1 ELSE 0),
             rng |-> second.rng]
        Second(first) ==
            Found(first,
                  IF c2_to_c1_flows # <<>>
                  THEN [flow |-> LatestFlow(c2_to_c1_flows), rng |-> first.rng]
                  ELSE _create_baseline_trade_flow(country2, country1, s.gdp[country2],
                                                   s.gdp[country1], prev_yq[1],
                                                   prev_yq[2], first.rng))
    IN Second(IF c1_to_c2_flows # <<>>
              THEN [flow |-> LatestFlow(c1_to_c2_flows), rng |-> rng]
              ELSE _create_baseline_trade_flow(country1, country2, s.gdp[country1],
                                               s.gdp[country2], prev_yq[1],
                                               prev_yq[2], rng))

\* the gdp_growth of a country's latest indicator / 4, or 1% without one
QuarterlyGrowth(s, name) ==
    LET indicators == Get(s.economic_indicators, name, <<>>)
    IN IF indicators = <<>> THEN 100
       ELSE indicators[Len(indicators)].gdp_growth \div 4

\* _calculate_base_growth_rate with the jitter drawn
BaseGrowthRate(s, exporter, importer, jitter) ==
    LET base_growth == ((6 * QuarterlyGrowth(s, exporter)
                         + 4 * QuarterlyGrowth(s, importer)) \div 10) + jitter
    IN Max(-500, Min(700, base_growth))

_calculate_base_growth_rate(exporter, importer, s, rng) ==
    LET x == RngNext(rng)
    IN [rate |-> BaseGrowthRate(s, exporter, importer, Uniform(-50, 50, x)),
        rng |-> x]

\* the tariff loop without the floor of zero under the volume
ApplyPolicyToFlow_without_floor(volumes, values, policy) ==
    LET rates == policy.sector_rates
        hit == (DOMAIN rates) \cap (DOMAIN volumes)
        new_volume(sec) ==
            volumes[sec]
            + DivAway(volumes[sec] * _get_sector_price_elasticity(sec) * rates[sec], 10 * RS)
    IN [volumes |-> [sec \in DOMAIN volumes |->
                        IF sec \in hit THEN new_volume(sec) ELSE volumes[sec]],
        values |-> [sec \in (DOMAIN values) \cup hit |->
                        IF sec \in hit
                        THEN new_volume(sec) + (new_volume(sec) * 7 * rates[sec]) \div (10 * RS)
                        ELSE values[sec]]]

\* the tariff loop of _calculate_updated_trade_flow for one policy
ApplyPolicyToFlow(volumes, values, policy) ==
    LET rates == policy.sector_rates
        hit == (DOMAIN rates) \cap (DOMAIN volumes)
        new_volume(sec) ==
            Max(0, volumes[sec]
                   + DivAway(volumes[sec] * _get_sector_price_elasticity(sec) * rates[sec],
                             10 * RS))
    IN [volumes |-> [sec \in DOMAIN volumes |->
                        IF sec \in hit THEN new_volume(sec) ELSE volumes[sec]],
        values |-> [sec \in (DOMAIN values) \cup hit |->
                        IF sec \in hit
                        THEN new_volume(sec) + (new_volume(sec) * 7 * rates[sec]) \div (10 * RS)
                        ELSE values[sec]]]

RECURSIVE ApplyPoliciesToFlow(_, _, _)
ApplyPoliciesToFlow(volumes, values, policies) ==
    IF policies = <<>> THEN [volumes |-> volumes, values |-> values]
    ELSE LET r == ApplyPolicyToFlow(volumes, values, Head(policies))
         IN ApplyPoliciesToFlow(r.volumes, r.values, Tail(policies))

\* _calculate_updated_trade_flow with the growth rate computed
UpdatedTradeFlow(exporter, importer, tariff_policies, previous_flow, year, quarter, growth_rate) ==
    LET r == ApplyPoliciesToFlow(previous_flow.sector_volumes,
                                 previous_flow.sector_values, tariff_policies)
    IN TradeFlow(exporter, importer, year, quarter,
                 [sec \in DOMAIN r.volumes |-> MulDiv(r.volumes[sec], RS + growth_rate, RS)],
                 [sec \in DOMAIN r.values |-> MulDiv(r.values[sec], RS + growth_rate, RS)])

_calculate_updated_trade_flow(s, exporter, importer, tariff_policies, previous_flow, year, quarter, rng) ==
    LET g == _calculate_base_growth_rate(exporter, importer, s, rng)
    IN [flow |-> UpdatedTradeFlow(exporter, importer, tariff_policies, previous_flow,
                                  year, quarter, g.rate),
        rng |-> g.rng]

\* update_trade_balance(state, country1, country2, year, quarter): the
\* state after it, the balance it returns, the generator's state
update_trade_balance(s, country1, country2, year, quarter, rng) ==
    LET c1_to_c2_policies == get_active_tariff_policies(s, country1, country2)
        c2_to_c1_policies == get_active_tariff_policies(s, country2, country1)
        Appended(prev_flows, c1_to_c2, c2_to_c1) ==
            [state |-> [s EXCEPT !.trade_flows = @ \o <<c1_to_c2.flow, c2_to_c1.flow>>],
             balance |-> total_value(c1_to_c2.flow) - total_value(c2_to_c1.flow),
             baselines |-> prev_flows.baselines,
             rng |-> c2_to_c1.rng]
        Reverse(prev_flows, c1_to_c2) ==
            Appended(prev_flows, c1_to_c2,
                     _calculate_updated_trade_flow(s, country2, country1, c1_to_c2_policies,
                                                   prev_flows.c2_to_c1_flow, year, quarter,
                                                   c1_to_c2.rng))
        Forward(prev_flows) ==
            Reverse(prev_flows,
                    _calculate_updated_trade_flow(s, country1, country2, c2_to_c1_policies,
                                                  prev_flows.c1_to_c2_flow, year, quarter,
                                                  prev_flows.rng))
    IN Forward(_get_previous_trade_flows(s, country1, country2, year, quarter, rng))

(***************************************************************************)
(* simulation/events.py: the catalog and the event generator.  An event    *)
(* object is identified by its name; probabilities are per mille, GDP      *)
(* impacts are growth in units of 1/RS.                                    *)
(***************************************************************************)
\* trigger_time = None
NoTrigger == -1

All3 == {"US", "China", "Indonesia"}

EventConfig(name, probability, affected_countries, gdp_impact, duration_quarters, trigger_time, one_time) ==
    [name |-> name, probability |-> probability,
     affected_countries |-> affected_countries, gdp_impact |-> gdp_impact,
     duration_quarters |-> duration_quarters,
     trigger_time |-> trigger_time, one_time |-> one_time]

Impact3(us, china, indonesia) ==
    [n \in All3 |-> IF n = "US" THEN us ELSE IF n = "China" THEN china ELSE indonesia]

Impact2(us, china) == [n \in {"US", "China"} |-> IF n = "US" THEN us ELSE china]

\* EventGenerator._create_predefined_events, in list order
_create_predefined_events ==
    << EventConfig("Global Financial Crisis", 10, All3, Impact3(-200, -150, -250),
                   4, NoTrigger, FALSE),
       EventConfig("US Economic Recession", 30, All3, Impact3(-150, -100, -50),
                   3, NoTrigger, FALSE),
       EventConfig("US Presidential Election", 0, All3, Impact3(0, 0, 0),
                   1, 2 * 4 + 3, TRUE),
       EventConfig("China Credit Crunch", 20, All3, Impact3(-50, -200, -100),
                   2, NoTrigger, FALSE),
       EventConfig("Global Supply Chain Disruption", 25, All3, Impact3(-100, -150, -100),
                   2, NoTrigger, FALSE),
       EventConfig("Natural Disaster in Indonesia", 30, {"Indonesia"},
                   [n \in {"Indonesia"} |-> -200], 2, NoTrigger, FALSE),
       EventConfig("Global Oil Price Shock", 20, All3, Impact3(-70, -100, 100),
                   3, NoTrigger, FALSE),
       EventConfig("Major Technology Breakthrough", 10, {"US", "China"}, Impact2(100, 70),
                   6, NoTrigger, FALSE),
       EventConfig("Global Pandemic", 5, All3, Impact3(-300, -250, -350),
                   5, NoTrigger, TRUE),
       EventConfig("Global Semiconductor Shortage", 25, All3, Impact3(-120, -150, -80),
                   4, NoTrigger, FALSE),
       EventConfig("Major AI Breakthrough", 15, {"US", "China"}, Impact2(150, 120),
                   8, NoTrigger, FALSE),
       EventConfig("Electric Vehicle Market Disruption", 20, {"US", "China"},
                   Impact2(-50, 150), 6, NoTrigger, FALSE),
       EventConfig("Rare Earth Minerals Crisis", 20, All3, Impact3(-100, 50, 80),
                   4, NoTrigger, FALSE),
       EventConfig("Major Cyber Attack on Infrastructure", 15, All3,
                   Impact3(-150, -100, -120), 2, NoTrigger, FALSE),
       EventConfig("Green Technology Subsidy Race", 30, {"US", "China"}, Impact2(80, 100),
                   8, NoTrigger, FALSE),
       EventConfig("New Regional Trade Agreement", 20, {"Indonesia", "China"},
                   Impact3(-50, 100, 150), 12, NoTrigger, FALSE),
       EventConfig("Supply Chain Nearshoring Wave", 25, All3, Impact3(100, -120, 150),
                   8, NoTrigger, FALSE) >>

EventNames == {_create_predefined_events[i].name : i \in DOMAIN _create_predefined_events}

\* the catalog's EventConfig object of that name
EventNamed(name) ==
    LET i == CHOOSE j \in DOMAIN _create_predefined_events :
                 _create_predefined_events[j].name = name
    IN _create_predefined_events[i]

\* EventGenerator._check_scheduled_events over the rest of the catalog
RECURSIVE CheckScheduled(_, _, _, _)
CheckScheduled(catalog, timeline_pos, triggered, events) ==
    IF catalog = <<>> THEN [events |-> events, triggered |-> triggered]
    ELSE LET event == Head(catalog)
         IN IF event.name \in triggered
            THEN CheckScheduled(Tail(catalog), timeline_pos, triggered, events)
            ELSE IF event.trigger_time # NoTrigger /\ event.trigger_time = timeline_pos
            THEN CheckScheduled(Tail(catalog), timeline_pos,
                                triggered \cup {event.name}, Append(events, event.name))
            ELSE CheckScheduled(Tail(catalog), timeline_pos, triggered, events)

_check_scheduled_events(year, quarter, triggered) ==
    CheckScheduled(_create_predefined_events, year * 4 + quarter, triggered, <<>>)

\* self.random.random() < probability, on the generator state after the draw
Occurs(x, probability) == x * 1000 < probability * RngModulus

\* the random sampling with the one-time flag left unread
RECURSIVE GenerateRandom_ignores_one_time(_, _, _, _)
GenerateRandom_ignores_one_time(catalog, triggered, rng, events) ==
    IF catalog = <<>> THEN [events |-> events, triggered |-> triggered, rng |-> rng]
    ELSE LET event == Head(catalog)
             x == RngNext(rng)
         IN IF event.trigger_time # NoTrigger
            THEN GenerateRandom_ignores_one_time(Tail(catalog), triggered, rng, events)
            ELSE IF Occurs(x, event.probability)
            THEN GenerateRandom_ignores_one_time(Tail(catalog), triggered, x,
                                                 Append(events, event.name))
            ELSE GenerateRandom_ignores_one_time(Tail(catalog), triggered, x, events)

\* EventGenerator._generate_random_events over the rest of the catalog
RECURSIVE GenerateRandom(_, _, _, _)
GenerateRandom(catalog, triggered, rng, events) ==
    IF catalog = <<>> THEN [events |-> events, triggered |-> triggered, rng |-> rng]
    ELSE LET event == Head(catalog)
             x == RngNext(rng)
         IN IF event.trigger_time # NoTrigger
            THEN GenerateRandom(Tail(catalog), triggered, rng, events)
            ELSE IF event.name \in triggered /\ event.one_time
            THEN GenerateRandom(Tail(catalog), triggered, rng, events)
            ELSE IF Occurs(x, event.probability)
            THEN GenerateRandom(Tail(catalog),
                                IF event.one_time THEN triggered \cup {event.name}
                                ELSE triggered,
                                x, Append(events, event.name))
            ELSE GenerateRandom(Tail(catalog), triggered, x, events)

\* EventGenerator.generate_events: scheduled events, then random ones
generate_events(year, quarter, triggered, rng) ==
    LET scheduled == _check_scheduled_events(year, quarter, triggered)
        randoms == GenerateRandom(_create_predefined_events, scheduled.triggered,
                                  rng, <<>>)
    IN [events |-> scheduled.events \o randoms.events,
        scheduled |-> scheduled.events, randoms |-> randoms.events,
        triggered |-> randoms.triggered, rng |-> randoms.rng]

(***************************************************************************)
(* economics/gdp.py: growth rates in units of 1/RS                         *)
(***************************************************************************)
\* (1 + annual_rate) ** 0.25 - 1 for the annual rates 2%, 5%, 4.2%, 2.5%
_get_baseline_quarterly_growth(name) ==
    CASE name = "US" -> 50
      [] name = "China" -> 123
      [] name = "Indonesia" -> 103
      [] OTHER -> 62

\* sum(policy.sector_rates.values()) / len(policy.sector_rates)
AvgRate(policy) == SumFn(policy.sector_rates) \div Cardinality(DOMAIN policy.sector_rates)

RECURSIVE TariffGdpSum(_, _)
TariffGdpSum(policies, name) ==
    IF policies = <<>> THEN 0
    ELSE LET p == Head(policies)
         IN (IF p.source_country = name THEN -((AvgRate(p) * 5) \div 100) ELSE 0)
            + (IF p.target_country = name THEN -((AvgRate(p) * 15) \div 100) ELSE 0)
            + TariffGdpSum(Tail(policies), name)

_calculate_tariff_gdp_impact(s, name) == TariffGdpSum(s.active_tariff_policies, name)

\* the export-to-GDP ratio in units of 1/RS
ExportToGdpRatio(name) ==
    CASE name = "US" -> 1000
      [] name = "China" -> 2000
      [] name = "Indonesia" -> 2500
      [] OTHER -> 3000

\* sum(flow.total_value for flow in flows)
RECURSIVE TotalValueSum(_)
TotalValueSum(flows) ==
    IF flows = <<>> THEN 0 ELSE total_value(Head(flows)) + TotalValueSum(Tail(flows))

_calculate_trade_gdp_impact(s, name) ==
    LET country_trade_flows ==
            SelectSeq(s.trade_flows, LAMBDA f : f.exporter = name \/ f.importer = name)
        latest_flows ==
            SelectSeq(s.trade_flows,
                      LAMBDA f : f.exporter = name /\ f.year = s.year
                                 /\ f.quarter = s.quarter)
        prev_flows ==
            SelectSeq(s.trade_flows,
                      LAMBDA f : /\ f.exporter = name
                                 /\ (f.year < s.year
                                     \/ (f.year = s.year /\ f.quarter < s.quarter)))
        latest_export == TotalValueSum(latest_flows)
        prev_export == TotalValueSum(prev_flows)
    IN IF Len(country_trade_flows) < 2 THEN 0
       ELSE IF latest_flows = <<>> \/ prev_flows = <<>> THEN 0
       ELSE IF prev_export = 0 THEN 0
       ELSE DivAway((latest_export - prev_export) * ExportToGdpRatio(name),
                    prev_export)

RECURSIVE InvestmentSum(_, _)
InvestmentSum(actions, name) ==
    IF actions = <<>> THEN 0
    ELSE (IF Head(actions).country = name /\ Head(actions).action_type = "investment"
          THEN (Head(actions).magnitude * 15) \div 10 ELSE 0)
         + InvestmentSum(Tail(actions), name)

_calculate_investment_gdp_impact(s, name) == InvestmentSum(s.recent_actions, name)

RECURSIVE EventImpactSum(_, _)
EventImpactSum(events, name) ==
    IF events = <<>> THEN 0
    ELSE LET event == EventNamed(Head(events))
         IN (IF name \in event.affected_countries
             THEN Get(event.gdp_impact, name, 0) ELSE 0)
            + EventImpactSum(Tail(events), name)

_calculate_event_gdp_impact(s, name) == EventImpactSum(s.active_events, name)

\* 0.005 * sin(2 * pi * k / 20) for k = 0 .. 19
CycleImpact == <<0, 15, 29, 40, 48, 50, 48, 40, 29, 15,
                 0, -15, -29, -40, -48, -50, -48, -40, -29, -15>>

_calculate_global_economy_impact(s) == CycleImpact[((s.year * 4 + s.quarter) % 20) + 1]

\* the growth rate of calculate_gdp_impact given the noise drawn
GrowthRate(s, name, noise) ==
    LET growth_rate == _get_baseline_quarterly_growth(name)
                       + _calculate_tariff_gdp_impact(s, name)
                       + _calculate_trade_gdp_impact(s, name)
                       + _calculate_investment_gdp_impact(s, name)
                       + _calculate_event_gdp_impact(s, name)
                       + _calculate_global_economy_impact(s)
                       + noise
    IN Max(-800, Min(1000, growth_rate))

\* calculate_gdp_impact(state, country, year, quarter): the growth rate and
\* the generator's state after the draw
calculate_gdp_impact(s, name, rng) ==
    LET x == RngNext(rng)
    IN [growth_rate |-> GrowthRate(s, name, Uniform(-25, 25, x)), rng |-> x]

(***************************************************************************)
(* SimulationState.finalize_update and what it calls.  Rates are in units  *)
(* of 1/RS, confidence indices in hundredths.                              *)
(***************************************************************************)
\* the GDPs of the snapshots taken before the current step, in order
PreviousValues(s, name) ==
    SelectSeq(Get(s.gdp_snapshots, name, <<>>), LAMBDA h : h[1] < CurrentStep(s))

_calculate_gdp_growth(s, name) ==
    LET previous_values == PreviousValues(s, name)
        previous_gdp == previous_values[Len(previous_values)][2]
    IN IF previous_values = <<>> THEN 200
       ELSE IF previous_gdp <= 0 THEN 0
       ELSE ((s.gdp[name] - previous_gdp) * RS) \div previous_gdp

\* sum(policy.sector_rates.values()) / max(1, len(policy.sector_rates))
AvgRateOrZero(policy) ==
    SumFn(policy.sector_rates) \div Max(1, Cardinality(DOMAIN policy.sector_rates))

RECURSIVE SumAvgRates(_)
SumAvgRates(policies) ==
    IF policies = <<>> THEN 0
    ELSE AvgRateOrZero(Head(policies)) + SumAvgRates(Tail(policies))

\* the mean over the policies of their mean rate, 0 without policies
MeanAvgRate(policies) ==
    IF policies = <<>> THEN 0 ELSE SumAvgRates(policies) \div Len(policies)

IncomingPolicies(s, name) ==
    SelectSeq(s.active_tariff_policies, LAMBDA p : p.target_country = name)

OutgoingPolicies(s, name) ==
    SelectSeq(s.active_tariff_policies, LAMBDA p : p.source_country = name)

_calculate_inflation(s, name) ==
    LET tariff_pressure == (MeanAvgRate(IncomingPolicies(s, name)) * 12) \div 100
                           + (MeanAvgRate(OutgoingPolicies(s, name)) * 4) \div 100
        growth == _calculate_gdp_growth(s, name)
        demand_pressure == (Max(0, growth - 50) * 2) \div 10
    IN Max(-200, Min(2000, 200 + tariff_pressure + demand_pressure))

_calculate_unemployment(s, name) ==
    LET previous == Get(s.economic_indicators, name, <<>>)
        previous_unemployment ==
            IF previous # <<>> THEN previous[Len(previous)].unemployment
            ELSE IF s.unemployment_rate[name] # 0 THEN s.unemployment_rate[name]
            ELSE 500
        gdp_growth == _calculate_gdp_growth(s, name)
        updated == previous_unemployment - ((gdp_growth - 50) \div 2)
    IN Max(200, Min(2000, updated))

_calculate_trade_balances(s, name) ==
    [partner \in Range(s.countries) \ {name} |-> get_trade_balance(s, name, partner)]

_calculate_consumer_confidence(s, name) ==
    LET previous == Get(s.economic_indicators, name, <<>>)
        prev_conf == IF previous # <<>>
                     THEN previous[Len(previous)].consumer_confidence ELSE 10000
        inflation == _calculate_inflation(s, name)
        unemployment == _calculate_unemployment(s, name)
        gdp_growth == _calculate_gdp_growth(s, name)
        delta == ((gdp_growth * 18) \div 10)
                 - ((Abs(inflation - 200) * 22) \div 10)
                 - ((Max(0, unemployment - 500) * 14) \div 10)
    IN Max(6000, Min(13000, prev_conf + delta))

_calculate_business_confidence(s, name) ==
    LET previous == Get(s.economic_indicators, name, <<>>)
        prev_conf == IF previous # <<>>
                     THEN previous[Len(previous)].business_confidence ELSE 10000
        gdp_growth == _calculate_gdp_growth(s, name)
        trade_signal == SumFn(_calculate_trade_balances(s, name))
        avg_tariff == MeanAvgRate(OutgoingPolicies(s, name))
        delta == (gdp_growth * 2) + ((trade_signal * 3) \div 1000000)
                 - ((avg_tariff * 3) \div 10)
    IN Max(6000, Min(13000, prev_conf + delta))

EconomicIndicator(s, name) ==
    [year |-> s.year, quarter |-> s.quarter,
     gdp_growth |-> _calculate_gdp_growth(s, name),
     inflation |-> _calculate_inflation(s, name),
     unemployment |-> _calculate_unemployment(s, name),
     trade_balance |-> _calculate_trade_balances(s, name),
     consumer_confidence |-> _calculate_consumer_confidence(s, name),
     business_confidence |-> _calculate_business_confidence(s, name),
     currency_value |-> s.currency_value[name]]

\* the policy loop of _remove_expired_items: the policies kept and the start
\* steps left, the dict being popped as the loop goes
RECURSIVE RemoveExpiredPolicies(_, _, _, _)
RemoveExpiredPolicies(policies, starts, current_step, kept) ==
    IF policies = <<>> THEN [kept |-> kept, starts |-> starts]
    ELSE LET policy == Head(policies)
             started == Get(starts, policy.id, current_step)
         IN IF (current_step - started) < policy.duration_quarters
            THEN RemoveExpiredPolicies(Tail(policies), starts, current_step,
                                       Append(kept, policy))
            ELSE RemoveExpiredPolicies(Tail(policies), Pop(starts, policy.id),
                                       current_step, kept)

RECURSIVE RemoveExpiredEvents(_, _, _, _)
RemoveExpiredEvents(events, starts, current_step, kept) ==
    IF events = <<>> THEN [kept |-> kept, starts |-> starts]
    ELSE LET event == Head(events)
             started == Get(starts, event, current_step)
         IN IF (current_step - started) < EventNamed(event).duration_quarters
            THEN RemoveExpiredEvents(Tail(events), starts, current_step,
                                     Append(kept, event))
            ELSE RemoveExpiredEvents(Tail(events), Pop(starts, event),
                                     current_step, kept)

\* keeps an item one step too long
_remove_expired_items_late(s) ==
    LET live(starts, id, duration) ==
            (CurrentStep(s) - Get(starts, id, CurrentStep(s))) <= duration
        policies == SelectSeq(s.active_tariff_policies,
                              LAMBDA p : live(s.policy_start_steps, p.id,
                                              p.duration_quarters))
        events == SelectSeq(s.active_events,
                            LAMBDA e : live(s.event_start_steps, e,
                                            EventNamed(e).duration_quarters))
    IN [s EXCEPT !.active_tariff_policies = policies,
                 !.policy_start_steps =
                     [i \in {p.id : p \in Range(policies)} \cap DOMAIN @ |-> @[i]],
                 !.active_events = events,
                 !.event_start_steps = [e \in Range(events) \cap DOMAIN @ |-> @[e]]]

_remove_expired_items(s) ==
    LET policies == RemoveExpiredPolicies(s.active_tariff_policies, s.policy_start_steps,
                                           CurrentStep(s), <<>>)
        events == RemoveExpiredEvents(s.active_events, s.event_start_steps,
                                      CurrentStep(s), <<>>)
    IN [s EXCEPT !.active_tariff_policies = policies.kept,
                 !.policy_start_steps = policies.starts,
                 !.active_events = events.kept,
                 !.event_start_steps = events.starts]

\* finalize_update with the newest indicator of a country overwritten
finalize_update_overwrites(s, year, quarter) ==
    LET at == [s EXCEPT !.year = year, !.quarter = quarter]
        indicated ==
            [at EXCEPT !.economic_indicators =
                [n \in DOMAIN at.economic_indicators |->
                    IF n \in Range(at.countries)
                    THEN IF at.economic_indicators[n] = <<>>
                         THEN <<EconomicIndicator(at, n)>>
                         ELSE [at.economic_indicators[n] EXCEPT
                                  ![Len(at.economic_indicators[n])] = EconomicIndicator(at, n)]
                    ELSE at.economic_indicators[n]]]
    IN _remove_expired_items(indicated)

finalize_update(s, year, quarter) ==
    LET at == [s EXCEPT !.year = year, !.quarter = quarter]
        indicated ==
            [at EXCEPT !.economic_indicators =
                [n \in DOMAIN at.economic_indicators |->
                    IF n \in Range(at.countries)
                    THEN Append(at.economic_indicators[n], EconomicIndicator(at, n))
                    ELSE at.economic_indicators[n]]]
    IN _remove_expired_items(indicated)

\* SimulationState.clone(): the state with the GDP snapshots it records; the
\* copy returned equals the state left behind
clone(s) ==
    [s EXCEPT !.gdp_snapshots =
        [n \in (DOMAIN s.gdp_snapshots) \cup Range(s.countries) |->
            LET history == Get(s.gdp_snapshots, n, <<>>)
            IN IF n \in Range(s.countries)
                  /\ (history = <<>> \/ history[Len(history)][1] # CurrentStep(s))
               THEN Append(history, <<CurrentStep(s), s.gdp[n]>>)
               ELSE history]]

(***************************************************************************)
(* The agents (agents/*.py).  An agent is [name, llm, previous_actions];   *)
(* its strategy parameters are the factory's defaults.                     *)
(***************************************************************************)
focus_sectors == <<"technology", "manufacturing", "agriculture">>

strategic_sectors == <<"technology", "manufacturing", "rare_earth_minerals">>

priority_sectors == <<"agriculture", "manufacturing", "tourism", "natural_resources">>

\* AgentFactory.create_agent for a registered name
create_agent(name, use_llm) == [name |-> name, llm |-> use_llm, previous_actions |-> <<>>]

\* BaseAgent.record_action
record_action(agent, action) ==
    [agent EXCEPT !.previous_actions = Append(@, action)]

\* the last element of a non-empty list
Last(q) == q[Len(q)]

\* USAgent._decide_without_llm; -0.05 trillion is -50000 value units
USAgent_decide_without_llm(s) ==
    LET china_deficit == get_trade_balance(s, "US", "China")
    IN IF china_deficit < -50000
       THEN EconomicAction("US", "tariff_increase", "China", focus_sectors, 2500)
       ELSE IF \E i \in DOMAIN s.recent_actions :
                  /\ s.recent_actions[i].country = "China"
                  /\ s.recent_actions[i].action_type = "tariff_increase"
       THEN EconomicAction("US", "tech_export_control", "China",
                           <<"technology", "semiconductors", "ai">>, 2000)
       ELSE EconomicAction("US", "friend_shoring", "Indonesia",
                           <<"manufacturing", "technology">>, 1000)

\* ChinaAgent._parse_llm_response: a fixed placeholder whatever the response
ChinaAgent_parse_llm_response ==
    EconomicAction("China", "tariff_adjustment", "US", strategic_sectors, 1500)

\* ChinaAgent.decide_action without an LLM client
ChinaAgent_rule_based(s) ==
    LET us_actions == SelectSeq(s.recent_actions,
                                LAMBDA a : a.country = "US" /\ a.target_country = "China")
    IN IF us_actions # <<>> /\ Last(us_actions).action_type = "tariff_increase"
       THEN EconomicAction("China", "tariff_increase", "US", Last(us_actions).sectors,
                           Last(us_actions).magnitude)
       ELSE EconomicAction("China", "investment", NoTarget, strategic_sectors, 1000)

\* IndonesiaAgent._decide_without_llm
IndonesiaAgent_decide_without_llm(s) ==
    LET us_actions == SelectSeq(s.recent_actions,
                                LAMBDA a : a.country = "US" /\ a.target_country # NoTarget)
        china_actions == SelectSeq(s.recent_actions,
                                   LAMBDA a : a.country = "China"
                                              /\ a.target_country # NoTarget)
        indicators == Get(s.economic_indicators, "Indonesia", <<>>)
    IN IF /\ us_actions # <<>> /\ china_actions # <<>>
          /\ Last(us_actions).target_country = "China"
          /\ Last(china_actions).target_country = "US"
       THEN EconomicAction("Indonesia", "supply_chain_diversification", "US",
                           SubSeq(priority_sectors, 1, 2), 1500)
       ELSE IF indicators # <<>> /\ Last(indicators).gdp_growth < 150
       THEN EconomicAction("Indonesia", "tariff_increase", NoTarget, priority_sectors, 500)
       ELSE EconomicAction("Indonesia", "green_tech_investment", NoTarget,
                           priority_sectors, 800)

\* what an advisor call and the parsing of its answer come to: a response
\* starting with ERROR:, one that parses to None, or a parsed action
LLMError == [outcome |-> "ERROR"]

Unparseable == [outcome |-> "None"]

Parsed(action) == [outcome |-> "action", action |-> action]

\* agent.decide_action(state); advice is the advisor's outcome for this call
decide_action(agent, s, advice) ==
    IF agent.name = "China"
    THEN IF agent.llm THEN ChinaAgent_parse_llm_response ELSE ChinaAgent_rule_based(s)
    ELSE IF agent.llm /\ advice.outcome = "action" THEN advice.action
    ELSE IF agent.name = "US" THEN USAgent_decide_without_llm(s)
    ELSE IndonesiaAgent_decide_without_llm(s)

\* sector_rates with one rate for every sector of a list
FlatRates(sectors, rate) == [sec \in Range(sectors) |-> rate]

USAgent_calculate_tariff_policy(s, target_country, id) ==
    IF target_country = "China"
    THEN TariffPolicy(id, "US", target_country,
                      [sec \in {"technology", "manufacturing", "agriculture",
                                "raw_materials", "services"} |->
                          IF sec \in {"technology", "manufacturing"} THEN 2500
                          ELSE IF sec = "agriculture" THEN 1000 ELSE 500],
                      4)
    ELSE TariffPolicy(id, "US", target_country, FlatRates(focus_sectors, 500), 4)

ChinaAgent_calculate_tariff_policy(s, target_country, id) ==
    LET us_policies == get_active_tariff_policies(s, "US", "China")
    IN IF target_country = "US" /\ us_policies # <<>>
       THEN TariffPolicy(id, "China", target_country, us_policies[1].sector_rates,
                         us_policies[1].duration_quarters)
       ELSE TariffPolicy(id, "China", target_country, FlatRates(strategic_sectors, 500), 4)

IndonesiaAgent_calculate_tariff_policy(s, target_country, id) ==
    LET base == [sec \in Range(priority_sectors) \cup {"technology", "healthcare", "education"} |->
                    IF sec \in {"technology", "healthcare", "education"} THEN 420 ELSE 1050]
        their_policies == get_active_tariff_policies(s, target_country, "Indonesia")
        sector_rates == IF target_country \in {"China", "US"} /\ their_policies # <<>>
                        THEN [sec \in DOMAIN base |-> Min((base[sec] * 125) \div 100, 2000)]
                        ELSE base
    IN TariffPolicy(id, "Indonesia", target_country, sector_rates, 4)

\* self.agents[name].calculate_tariff_policy(state, target_country); id is
\* the identity of the TariffPolicy object it creates
calculate_tariff_policy(name, s, target_country, id) ==
    IF name = "US" THEN USAgent_calculate_tariff_policy(s, target_country, id)
    ELSE IF name = "China" THEN ChinaAgent_calculate_tariff_policy(s, target_country, id)
    ELSE IndonesiaAgent_calculate_tariff_policy(s, target_country, id)

(***************************************************************************)
(* SimulationEngine (simulation/engine.py): what its methods do to the     *)
(* state, the generators and the object counter.                           *)
(***************************************************************************)
\* x * (1 + delta / RS): a positive product grows x, a negative one shrinks it
Scale(x, delta) == x + DivAway(x * delta, RS)

\* the flows of _initialize_trade_flows, in the order it appends them
RECURSIVE InitialFlows(_, _, _, _, _)
InitialFlows(names, gdp, year, quarter, k) ==
    LET n == Len(names)
        i == (k \div n) + 1
        j == (k % n) + 1
        base_volume == TradeScale(gdp[names[i]], gdp[names[j]])
        sector_volumes == [sec \in {"technology", "manufacturing", "agriculture", "services"} |->
                              base_volume \div 4]
        sector_values == [sec \in DOMAIN sector_volumes |-> (sector_volumes[sec] * 11) \div 10]
    IN IF k >= n * n THEN <<>>
       ELSE (IF i # j
             THEN <<TradeFlow(names[i], names[j], year, quarter,
                              sector_volumes, sector_values)>>
             ELSE <<>>)
            \o InitialFlows(names, gdp, year, quarter, k + 1)

_initialize_trade_flows(s, names, year, quarter) ==
    IF Len(names) < 2 THEN s
    ELSE [s EXCEPT !.trade_flows = @ \o InitialFlows(names, s.gdp, year, quarter, 0)]

\* multiply the listed sectors of a flow, where the flow has them
ScaleSectors(flow, sectors, delta) ==
    [flow EXCEPT
        !.sector_volumes = [sec \in DOMAIN @ |-> IF sec \in sectors /\ sec \in DOMAIN flow.sector_volumes
                                                  THEN Scale(@[sec], delta) ELSE @[sec]],
        !.sector_values = [sec \in DOMAIN @ |-> IF sec \in sectors /\ sec \in DOMAIN flow.sector_volumes
                                                 THEN Scale(@[sec], delta) ELSE @[sec]]]

MapFlows(s, Hit(_), sectors_of(_), delta) ==
    [s EXCEPT !.trade_flows =
        [i \in DOMAIN @ |-> IF Hit(@[i]) THEN ScaleSectors(@[i], sectors_of(@[i]), delta)
                            ELSE @[i]]]

IsTariffAction(action) ==
    action.action_type \in {"tariff_increase", "tariff_adjustment", "tariff_decrease"}

\* the tariff branch of _apply_actions for one action
ApplyTariffAction(s, action, id) ==
    LET made == calculate_tariff_policy(action.country, s, action.target_country, id)
        policy == IF action.action_type = "tariff_decrease"
                  THEN [made EXCEPT !.sector_rates =
                           [sec \in DOMAIN @ |-> Max(0, @[sec] - Abs(action.magnitude))]]
                  ELSE made
        with_policy == add_tariff_policy(s, policy)
        targeted_gdp == IF action.fresh_target THEN 0
                        ELSE Get(s.gdp, action.target_country, 0)
        tariff_impact == calculate_tariff_impact(with_policy, policy, action.country, action.target_country, s.gdp[action.country], targeted_gdp, 1)
    IN apply_tariff_impact(with_policy, tariff_impact)

\* the flow branches with the quota falling on every flow the acting
\* country imports, whatever the target
ApplyFlowAction_quota_on_all_imports(s, action) ==
    LET sectors == Range(action.sectors)
        redirected ==
            IF action.action_type \in {"supply_chain_diversification", "friend_shoring"}
               /\ action.target_country # NoTarget
            THEN MapFlows(s, LAMBDA f : f.exporter = action.target_country,
                          LAMBDA f : sectors, Min(2000, Max(0, action.magnitude)))
            ELSE s
        localized ==
            IF action.action_type = "data_sovereignty"
            THEN MapFlows(redirected,
                          LAMBDA f : f.exporter = action.country \/ f.importer = action.country,
                          LAMBDA f : {"digital_services"},
                          -Min(5000, Max(0, action.magnitude)))
            ELSE redirected
    IN IF action.action_type = "import_quota"
       THEN MapFlows(localized,
                     LAMBDA f : f.importer = action.country,
                     LAMBDA f : IF action.sectors # <<>> THEN sectors
                                ELSE DOMAIN f.sector_volumes,
                     Max(0, RS - Min(9000, Max(0, action.magnitude))) - RS)
       ELSE localized

\* the flow branches of _apply_actions for one action
ApplyFlowAction(s, action) ==
    LET sectors == Range(action.sectors)
        redirected ==
            IF action.action_type \in {"supply_chain_diversification", "friend_shoring"}
               /\ action.target_country # NoTarget
            THEN MapFlows(s, LAMBDA f : f.exporter = action.target_country,
                          LAMBDA f : sectors, Min(2000, Max(0, action.magnitude)))
            ELSE s
        localized ==
            IF action.action_type = "data_sovereignty"
            THEN MapFlows(redirected,
                          LAMBDA f : f.exporter = action.country \/ f.importer = action.country,
                          LAMBDA f : {"digital_services"},
                          -Min(5000, Max(0, action.magnitude)))
            ELSE redirected
    IN IF action.action_type = "import_quota"
       THEN MapFlows(localized,
                     LAMBDA f : /\ f.importer = action.country
                                /\ (action.target_country = NoTarget
                                    \/ f.exporter = action.target_country),
                     LAMBDA f : IF action.sectors # <<>> THEN sectors
                                ELSE DOMAIN f.sector_volumes,
                     Max(0, RS - Min(9000, Max(0, action.magnitude))) - RS)
       ELSE localized

\* SimulationEngine._apply_actions: the state after it and the next free
\* object identity
RECURSIVE _apply_actions(_, _, _)
_apply_actions(s, actions, id) ==
    IF actions = <<>> THEN [state |-> s, next_id |-> id]
    ELSE LET action == Head(actions)
             logged == add_action(s, action)
             tariffed == IsTariffAction(action) /\ action.target_country # NoTarget
             after_tariff == IF tariffed THEN ApplyTariffAction(logged, action, id)
                             ELSE logged
         IN _apply_actions(ApplyFlowAction(after_tariff, action), Tail(actions),
                           IF tariffed THEN id + 1 ELSE id)

\* the immediate impacts with the export control charged to the acting
\* country instead of the target
ImmediateImpact_control_hits_source(s, action) ==
    LET cut == IF action.action_type = "tech_export_control" /\ action.target_country # NoTarget
               THEN -Min(200, DivAway(action.magnitude * 2, 100)) ELSE 0
    IN IF action.country \notin Range(s.countries) THEN s
       ELSE [s EXCEPT !.gdp[action.country] = Scale(@, cut)]

\* the immediate impacts with the subsidies left out
ImmediateImpact_without_subsidies(s, action) ==
    LET cut(n) == IF action.action_type = "tech_export_control" /\ action.target_country = n
                  THEN -Min(200, DivAway(action.magnitude * 2, 100)) ELSE 0
    IN IF action.country \notin Range(s.countries) THEN s
       ELSE [s EXCEPT !.gdp = [n \in DOMAIN @ |-> Scale(@[n], cut(n))]]

\* the action-specific part of _apply_economic_impacts for one action
ImmediateImpact(s, action) ==
    LET t == action.action_type
        m == action.magnitude
        source == action.country
        gdp_factor ==
            (IF t = "industrial_subsidy" THEN Min(200, DivAway(m * 2, 100)) ELSE 0)
        green_factor ==
            (IF t = "green_tech_investment" THEN Min(200, DivAway(m * 3, 100)) ELSE 0)
        export_factor ==
            (IF t = "export_subsidy" THEN Min(100, DivAway(m * 15, 1000)) ELSE 0)
        boosted == Scale(Scale(s.gdp[source], gdp_factor), green_factor)
        controlled(n) ==
            IF t = "tech_export_control" /\ action.target_country = n
            THEN -Min(200, DivAway(m * 2, 100)) ELSE 0
    IN IF source \notin Range(s.countries) THEN s
       ELSE [s EXCEPT
               !.currency_value =
                   [n \in DOMAIN @ |->
                       IF n = source /\ t = "currency_devaluation"
                       THEN (@[n] * Max(6000, RS - (m * 2) \div 10)) \div RS
                       ELSE @[n]],
               !.gdp =
                   [n \in DOMAIN @ |->
                       Scale(Scale(IF n = source THEN boosted ELSE @[n], controlled(n)),
                             IF n = source THEN export_factor ELSE 0)]]

RECURSIVE ImmediateImpacts(_, _)
ImmediateImpacts(s, actions) ==
    IF actions = <<>> THEN s
    ELSE ImmediateImpacts(ImmediateImpact(s, Head(actions)), Tail(actions))

\* the growth loop of _apply_economic_impacts over the rest of the countries;
\* gdp_model is "code" for calculate_gdp_impact and "zero" for the constant
\* (0.0, {}) the tests patch in
RECURSIVE ApplyGrowth(_, _, _, _)
ApplyGrowth(s, names, rng, gdp_model) ==
    IF names = <<>> THEN [state |-> s, rng |-> rng]
    ELSE LET name == Head(names)
             g == IF gdp_model = "zero" THEN [growth_rate |-> 0, rng |-> rng]
                  ELSE calculate_gdp_impact(s, name, rng)
         IN ApplyGrowth([s EXCEPT !.gdp[name] = Scale(@, g.growth_rate)],
                        Tail(names), g.rng, gdp_model)

\* SimulationEngine._apply_economic_impacts
_apply_economic_impacts(s, actions, rng, gdp_model) ==
    ApplyGrowth(ImmediateImpacts(s, actions), s.countries, rng, gdp_model)

\* (country, partner) for country in countries for partner in countries if
\* country != partner, in loop order
OrderedPairs(names) ==
    LET n == Len(names)
        all == [k \in 1..(n * n) |-> <<names[((k - 1) \div n) + 1], names[((k - 1) % n) + 1]>>]
    IN SelectSeq(all, LAMBDA pr : pr[1] # pr[2])

RECURSIVE UpdateTradeBalances(_, _, _)
UpdateTradeBalances(s, pairs, rng) ==
    IF pairs = <<>> THEN [state |-> s, rng |-> rng]
    ELSE LET Rest(r) == UpdateTradeBalances(r.state, Tail(pairs), r.rng)
         IN Rest(update_trade_balance(s, Head(pairs)[1], Head(pairs)[2],
                                      s.year, s.quarter, rng))

\* SimulationEngine._update_economic_indicators
_update_economic_indicators(s, year, quarter, rng) ==
    LET Finalized(r) == [state |-> finalize_update(r.state, year, quarter), rng |-> r.rng]
    IN Finalized(UpdateTradeBalances(s, OrderedPairs(s.countries), rng))

\* the decisions with each action recorded before the next agent decides
RECURSIVE DecideInTurn(_, _, _, _, _)
DecideInTurn(names, agts, s, advice, decided) ==
    IF names = <<>> THEN decided
    ELSE LET Rest(action) == DecideInTurn(Tail(names), agts, add_action(s, action), advice,
                                          Append(decided, action))
         IN Rest(decide_action(agts[Head(names)], s, advice[Head(names)]))

DecideAll_each_action_recorded_at_once(names, agts, s, advice) ==
    DecideInTurn(names, agts, s, advice, <<>>)

\* every agent's decide_action on the state, in the order of self.agents
DecideAll(names, agts, s, advice) ==
    [i \in DOMAIN names |-> decide_action(agts[names[i]], s, advice[names[i]])]

\* the step with the GDP impacts computed before the actions are applied
StepAt_impacts_before_actions(s, names, agts, year, quarter, advice, triggered, ev_rng, rng, id) ==
    LET at == [s EXCEPT !.year = year, !.quarter = quarter]
        Recorded(actions) ==
            [n \in DOMAIN agts |->
                IF \E i \in DOMAIN names : names[i] = n
                THEN record_action(agts[n],
                                   actions[CHOOSE i \in DOMAIN names : names[i] = n])
                ELSE agts[n]]
        Done(generated, actions, applied, gdp_read, impacted, updated) ==
            [state |-> updated.state, agents |-> Recorded(actions), actions |-> actions,
             events |-> generated.events, triggered_events |-> generated.triggered,
             event_rng |-> generated.rng, global_rng |-> updated.rng,
             next_id |-> applied.next_id,
             reads |-> [gdp |-> gdp_read, trade |-> impacted.state]]
        Indicators(generated, actions, applied, gdp_read, impacted) ==
            Done(generated, actions, applied, gdp_read, impacted,
                 _update_economic_indicators(impacted.state, year, quarter, impacted.rng))
        Applied(generated, with_events, actions, impacted, applied) ==
            Indicators(generated, actions, applied, with_events,
                       [state |-> applied.state, rng |-> impacted.rng])
        Impacts(generated, with_events, actions, impacted) ==
            Applied(generated, with_events, actions, impacted,
                    _apply_actions(impacted.state, actions, id))
        Actions(generated, with_events, actions) ==
            Impacts(generated, with_events, actions,
                    _apply_economic_impacts(with_events, actions, rng, "code"))
        Decisions(generated, with_events) ==
            Actions(generated, with_events, DecideAll(names, agts, with_events, advice))
        Events(generated) == Decisions(generated, add_events(at, generated.events))
    IN Events(generate_events(year, quarter, triggered, ev_rng))

\* SimulationEngine.step once current_year and current_quarter are set: the
\* engine's state, agents, generators and object counter after it, and the
\* states that _apply_economic_impacts and _update_economic_indicators read
StepAt(s, names, agts, year, quarter, advice, triggered, ev_rng, rng, id) ==
    LET at == [s EXCEPT !.year = year, !.quarter = quarter]
        Recorded(actions) ==
            [n \in DOMAIN agts |->
                IF \E i \in DOMAIN names : names[i] = n
                THEN record_action(agts[n],
                                   actions[CHOOSE i \in DOMAIN names : names[i] = n])
                ELSE agts[n]]
        Done(generated, actions, applied, impacted, updated) ==
            [state |-> updated.state, agents |-> Recorded(actions), actions |-> actions,
             events |-> generated.events, triggered_events |-> generated.triggered,
             event_rng |-> generated.rng, global_rng |-> updated.rng,
             next_id |-> applied.next_id,
             reads |-> [gdp |-> applied.state, trade |-> impacted.state]]
        Indicators(generated, actions, applied, impacted) ==
            Done(generated, actions, applied, impacted,
                 _update_economic_indicators(impacted.state, year, quarter, impacted.rng))
        Impacts(generated, actions, applied) ==
            Indicators(generated, actions, applied,
                       _apply_economic_impacts(applied.state, actions, rng, "code"))
        Actions(generated, with_events, actions) ==
            Impacts(generated, actions, _apply_actions(with_events, actions, id))
        Decisions(generated, with_events) ==
            Actions(generated, with_events, DecideAll(names, agts, with_events, advice))
        Events(generated) == Decisions(generated, add_events(at, generated.events))
    IN Events(generate_events(year, quarter, triggered, ev_rng))

(***************************************************************************)
(* simulation/stability.py with the default thresholds.  A factor is in    *)
(* units of 1/RS; a score is the factors weighted in hundredths, so 1.0 is *)
(* ScoreOne.  A result is the error raised or the score returned; the      *)
(* factor breakdown and the trend label are left out.                      *)
(***************************************************************************)
ScoreOne == 100 * RS

Returned(score) == [error |-> "none", score |-> score]

Raised(error) == [error |-> error, score |-> 0]

\* the list of the values of a dict, for sums and counts
RECURSIVE Values(_, _)
Values(f, keys) ==
    IF keys = {} THEN <<>>
    ELSE LET k == CHOOSE x \in keys : TRUE
         IN <<f[k]>> \o Values(f, keys \ {k})

\* abs(total / gdp) / deficit_threshold of an indicator's trade balances,
\* rounded up
ImbalanceRatio(indicator, gdp) == DivAway(Abs(SumFn(indicator.trade_balance)) * 1000, gdp)

\* StabilityAnalyzer.analyze_country_stability(state, country); gdp is the
\* gdp of the Country object passed
analyze_country_stability(s, name, gdp) ==
    LET indicators == Get(s.economic_indicators, name, <<>>)
        latest_indicator == Last(indicators)
        gdp_score == Min(RS, Max(0, (RS \div 2) + latest_indicator.gdp_growth * 10))
        inflation_score == Max(0, RS - Abs(latest_indicator.inflation - 200) * 10)
        unemployment_score == Max(0, RS - latest_indicator.unemployment * 5)
        incoming_tariffs == IncomingPolicies(s, name)
        avg_incoming_rate ==
            SumSeq([i \in DOMAIN incoming_tariffs |-> AvgRate(incoming_tariffs[i])])
                \div Len(incoming_tariffs)
        tariff_impact_score == IF incoming_tariffs # <<>>
                               THEN Max(0, RS - avg_incoming_rate * 2) ELSE RS
        trade_balances == latest_indicator.trade_balance
        trade_balance_score ==
            IF DOMAIN trade_balances # {}
            THEN RS - Min(RS, ImbalanceRatio(latest_indicator, gdp))
            ELSE RS \div 2
        confidence_score == (latest_indicator.consumer_confidence
                             + latest_indicator.business_confidence) \div 2
    IN IF indicators = <<>> THEN Returned(ScoreOne \div 2)
       ELSE IF DOMAIN trade_balances # {} /\ gdp = 0 THEN Raised("ZeroDivisionError")
       ELSE Returned(25 * gdp_score + 15 * inflation_score + 15 * unemployment_score
                     + 20 * tariff_impact_score + 15 * trade_balance_score
                     + 10 * confidence_score)

\* every rate of every active policy
RECURSIVE AllSectorRates(_)
AllSectorRates(policies) ==
    IF policies = <<>> THEN <<>>
    ELSE Values(Head(policies).sector_rates, DOMAIN Head(policies).sector_rates)
         \o AllSectorRates(Tail(policies))

_analyze_tariff_levels(s) ==
    LET rates == AllSectorRates(s.active_tariff_policies)
    IN IF rates = <<>> THEN RS
       ELSE Max(0, RS - (SumSeq(rates) \div Len(rates)) * 4)

_detect_tariff_retaliation(s) ==
    LET policies == Range(s.active_tariff_policies)
        country_pairs == {<<p.source_country, p.target_country>> : p \in policies}
        bilateral_pairs == {{pr[1], pr[2]} : pr \in {q \in country_pairs : <<q[2], q[1]>> \in country_pairs}}
    IN IF Len(s.active_tariff_policies) < 2 THEN RS
       ELSE Max(0, RS - (2 * RS * Cardinality(bilateral_pairs)) \div Cardinality(country_pairs))

\* the countries whose latest indicator enters _evaluate_trade_imbalances
Imbalanced(s) ==
    {n \in DOMAIN s.economic_indicators :
        /\ s.economic_indicators[n] # <<>>
        /\ n \in Range(s.countries)
        /\ DOMAIN Last(s.economic_indicators[n]).trade_balance # {}}

_evaluate_trade_imbalances(s) ==
    LET ratios == [n \in Imbalanced(s) |->
                      ImbalanceRatio(Last(s.economic_indicators[n]), s.gdp[n])]
    IN IF \E n \in Imbalanced(s) : s.gdp[n] = 0 THEN Raised("ZeroDivisionError")
       ELSE IF Imbalanced(s) = {} THEN Returned(RS \div 2)
       ELSE Returned(Max(0, RS - SumFn(ratios) \div Cardinality(Imbalanced(s))))

\* np.std of a list: the population standard deviation
StdDev(values) ==
    LET n == Len(values)
        squares == [i \in DOMAIN values |-> values[i] * values[i]]
    IN ISqrt(n * SumSeq(squares) - SumSeq(values) * SumSeq(values)) \div n

_analyze_indicator_volatility(s) ==
    LET measured == {n \in DOMAIN s.economic_indicators : Len(s.economic_indicators[n]) >= 3}
        country_score(n) ==
            LET indicators == s.economic_indicators[n]
                gdp_volatility == StdDev([i \in DOMAIN indicators |-> indicators[i].gdp_growth])
                inflation_volatility == StdDev([i \in DOMAIN indicators |-> indicators[i].inflation])
            IN Max(0, RS - ((gdp_volatility + inflation_volatility) * 100) \div 6)
    IN IF measured = {} THEN RS \div 2
       ELSE SumFn([n \in measured |-> country_score(n)]) \div Cardinality(measured)

\* abs(country_impact) over every gdp_impact value of every active event
RECURSIVE EventImpacts(_)
EventImpacts(events) ==
    IF events = <<>> THEN <<>>
    ELSE LET impact == EventNamed(Head(events)).gdp_impact
         IN Values([n \in DOMAIN impact |-> Abs(impact[n])], DOMAIN impact)
            \o EventImpacts(Tail(events))

_assess_external_events(s) ==
    LET impacts == EventImpacts(s.active_events)
    IN IF impacts = <<>> THEN RS
       ELSE Max(0, RS - (SumSeq(impacts) \div Len(impacts)) * 50)

\* StabilityAnalyzer.analyze_global_stability(state)
analyze_global_stability(s) ==
    LET Weighted(imbalance) ==
            IF imbalance.error # "none" THEN imbalance
            ELSE Returned(25 * _analyze_tariff_levels(s) + 25 * _detect_tariff_retaliation(s)
                          + 20 * imbalance.score + 20 * _analyze_indicator_volatility(s)
                          + 10 * _assess_external_events(s))
    IN Weighted(_evaluate_trade_imbalances(s))

(***************************************************************************)
(* The variables.  state is the SimulationState under test or the engine's *)
(* state; the engine's fields keep their names.  calls and last_call       *)
(* record what was called, for stating properties of the calls.            *)
(***************************************************************************)
VARIABLES state, history, countries, current_year, current_quarter,
          quarters_per_year, max_years, agents, triggered_events, event_rng,
          global_rng, pc, error, run, next_id, calls, last_call

engine_vars == <<history, countries, current_year, current_quarter,
                 quarters_per_year, max_years, agents, triggered_events,
                 event_rng, pc, error, run>>

vars == <<state, history, countries, current_year, current_quarter,
          quarters_per_year, max_years, agents, triggered_events, event_rng,
          global_rng, pc, error, run, next_id, calls, last_call>>

\* no engine exists: the state is driven directly, as the unit tests do
NoEngine ==
    /\ history = <<>> /\ countries = <<>>
    /\ current_year = 0 /\ current_quarter = 0
    /\ quarters_per_year = 4 /\ max_years = 0
    /\ agents = EmptyFn /\ triggered_events = {} /\ event_rng = 0
    /\ pc = "none" /\ error = "none" /\ run = <<>>

\* the three countries of tests/conftest.py, GDP in units of 1/RS trillion
ConftestCountries == <<"US", "China", "Indonesia">>

ConftestGdp ==
    [n \in Range(ConftestCountries) |->
        IF n = "US" THEN 288000 ELSE IF n = "China" THEN 178000 ELSE 14200]

\* conftest.py mock_state without its tariff policy
MockState == SimulationState(ConftestCountries, ConftestGdp, 0, 0)

(***************************************************************************)
(* The action log: add_action called on a state, nothing else.             *)
(***************************************************************************)
SampleActions ==
    {EconomicAction("US", "tariff_increase", "China", <<"technology">>, 2500),
     EconomicAction("Indonesia", "green_tech_investment", NoTarget, <<>>, 800)}

InitActions ==
    /\ state = MockState
    /\ NoEngine
    /\ global_rng = 0
    /\ next_id = 1
    /\ calls = <<>>
    /\ last_call = [op |-> "init"]

AddAction ==
    /\ Len(calls) < MaxLogged
    /\ \E action \in SampleActions :
          /\ state' = add_action(state, action)
          /\ calls' = Append(calls, action)
          /\ last_call' = [op |-> "add_action", action |-> action]
    /\ UNCHANGED <<engine_vars, global_rng, next_id>>

NextActions == AddAction

SpecActions == InitActions /\ [][NextActions]_vars

\* C10: after n add_action calls all_actions holds the n actions in call
\* order and recent_actions holds the last min(n, 10) of them in that order
C10_ActionLog ==
    /\ state.all_actions = calls
    /\ state.recent_actions = LastN(calls, Min(Len(calls), 10))

\* more than ten actions were logged, so the recent buffer has been trimmed
C10_Witness ==
    /\ Len(calls) > 10
    /\ Len(state.recent_actions) = 10
    /\ state.recent_actions[1] = calls[Len(calls) - 9]

(***************************************************************************)
(* The policy and event ledger: add_tariff_policy, add_events and          *)
(* finalize_update called on a state in any order.                         *)
(***************************************************************************)
SampleRates == [sec \in {"technology"} |-> 2000]

SampleDurations == {1, 2}

\* the lists of catalog events a caller passes to add_events here
SampleEventLists ==
    {<<"US Presidential Election">>, <<"China Credit Crunch">>,
     <<"China Credit Crunch", "US Presidential Election">>}

InitLedger ==
    /\ state = MockState
    /\ NoEngine
    /\ global_rng = 0
    /\ next_id = 1
    /\ calls = <<>>
    /\ last_call = [op |-> "init"]

LedgerAddPolicy ==
    /\ Len(calls) < MaxLedgerCalls
    /\ \E duration \in SampleDurations :
          LET policy == TariffPolicy(next_id, "US", "China", SampleRates, duration)
          IN /\ state' = add_tariff_policy(state, policy)
             /\ calls' = Append(calls, [op |-> "add", policies |-> {policy.id},
                                        events |-> {}, step |-> CurrentStep(state)])
             /\ last_call' = [op |-> "add_tariff_policy", policy |-> policy]
    /\ next_id' = next_id + 1
    /\ UNCHANGED <<engine_vars, global_rng>>

LedgerAddEvents ==
    /\ Len(calls) < MaxLedgerCalls
    /\ \E events \in SampleEventLists :
          /\ state' = add_events(state, events)
          /\ calls' = Append(calls, [op |-> "add", policies |-> {},
                                     events |-> Range(events),
                                     step |-> CurrentStep(state)])
          /\ last_call' = [op |-> "add_events", events |-> events]
    /\ UNCHANGED <<engine_vars, global_rng, next_id>>

\* the identities of a state's active policies, and its active events
ActivePolicies(s) == {p.id : p \in Range(s.active_tariff_policies)}

ActiveEvents(s) == Range(s.active_events)

LedgerFinalize ==
    /\ Len(calls) < MaxLedgerCalls
    /\ \E t \in 0..MaxTime :
          /\ state' = finalize_update(state, t \div 4, t % 4)
          /\ calls' = Append(calls,
                             [op |-> "finalize",
                              policies |-> ActivePolicies(state) \ ActivePolicies(state'),
                              events |-> ActiveEvents(state) \ ActiveEvents(state'),
                              step |-> t])
          /\ last_call' = [op |-> "finalize_update", pre |-> state, step |-> t]
    /\ UNCHANGED <<engine_vars, global_rng, next_id>>

NextLedger == LedgerAddPolicy \/ LedgerAddEvents \/ LedgerFinalize

SpecLedger == InitLedger /\ [][NextLedger]_vars

\* the add calls that passed a policy or an event
PolicyAdds(id) == {i \in DOMAIN calls : calls[i].op = "add" /\ id \in calls[i].policies}

EventAdds(name) == {i \in DOMAIN calls : calls[i].op = "add" /\ name \in calls[i].events}

\* the policies and the events that have been added exactly once
PoliciesAddedOnce ==
    {id \in UNION {calls[i].policies : i \in DOMAIN calls} :
        Cardinality(PolicyAdds(id)) = 1}

EventsAddedOnce ==
    {name \in UNION {calls[i].events : i \in DOMAIN calls} :
        Cardinality(EventAdds(name)) = 1}

\* those that some finalize_update has dropped
PoliciesDropped ==
    UNION {calls[i].policies : i \in {j \in DOMAIN calls : calls[j].op = "finalize"}}

EventsDropped ==
    UNION {calls[i].events : i \in {j \in DOMAIN calls : calls[j].op = "finalize"}}

PolicyAddStep(id) == calls[CHOOSE i \in PolicyAdds(id) : TRUE].step

EventAddStep(name) == calls[CHOOSE i \in EventAdds(name) : TRUE].step

PolicyDuration(s, id) ==
    (CHOOSE p \in Range(s.active_tariff_policies) : p.id = id).duration_quarters

\* what finalize_update at step t owes an item added at step s with duration d
\* and identity id: gone with its start step, or kept with it
ExpiryRule(s, t, d, id, active, starts) ==
    IF t - s >= d THEN id \notin active /\ id \notin DOMAIN starts
    ELSE id \in active /\ id \in DOMAIN starts /\ starts[id] = s

\* C4: a policy or event added once at step s is, by finalize_update at step
\* t, removed with its start-step entry if t - s >= duration_quarters and kept
\* with it if t - s < duration_quarters; once removed it is never active again
C4_Expiry ==
    /\ last_call.op = "finalize_update" =>
          /\ \A id \in PoliciesAddedOnce \cap ActivePolicies(last_call.pre) :
                ExpiryRule(PolicyAddStep(id), last_call.step,
                           PolicyDuration(last_call.pre, id), id,
                           ActivePolicies(state), state.policy_start_steps)
          /\ \A name \in EventsAddedOnce \cap ActiveEvents(last_call.pre) :
                ExpiryRule(EventAddStep(name), last_call.step,
                           EventNamed(name).duration_quarters, name,
                           ActiveEvents(state), state.event_start_steps)
    /\ \A id \in PoliciesAddedOnce \cap PoliciesDropped : id \notin ActivePolicies(state)
    /\ \A name \in EventsAddedOnce \cap EventsDropped : name \notin ActiveEvents(state)

\* a finalize_update has just dropped a once-added policy that had run out
\* and kept a once-added event that had not
C4_Witness ==
    /\ last_call.op = "finalize_update"
    /\ \E id \in PoliciesAddedOnce \cap ActivePolicies(last_call.pre) :
          /\ last_call.step - PolicyAddStep(id) >= PolicyDuration(last_call.pre, id)
          /\ id \notin ActivePolicies(state)
    /\ \E name \in EventsAddedOnce \cap ActiveEvents(last_call.pre) :
          /\ last_call.step - EventAddStep(name) < EventNamed(name).duration_quarters
          /\ name \in ActiveEvents(state)

\* finalize_update has been called for every step from the step of call i
\* on, once each and in order, as an engine's consecutive steps call it
FinalizedEveryStepSince(i) ==
    LET later == SelectSeq(SubSeq(calls, i + 1, Len(calls)), LAMBDA c : c.op = "finalize")
    IN /\ later # <<>>
       /\ \A k \in DOMAIN later : later[k].step = calls[i].step + k - 1

\* C25: the active policies that the indicator computation of
\* finalize_update reads at step t (the list the GDP calculator and the
\* trade-balance updater read earlier in the same step) all satisfy
\* t - start_step < duration_quarters, for a policy added in step s and
\* finalize_update called for each of the steps s .. t
C25_ReadPoliciesWithinDuration ==
    last_call.op = "finalize_update" =>
        \A id \in PoliciesAddedOnce \cap ActivePolicies(last_call.pre) :
           FinalizedEveryStepSince(CHOOSE i \in PolicyAdds(id) : TRUE) =>
              last_call.step - last_call.pre.policy_start_steps[id]
                 < PolicyDuration(last_call.pre, id)

\* the step of the latest add_events call that passed the event
EventLastAddStep(name) == calls[CHOOSE i \in EventAdds(name) : \A j \in EventAdds(name) : j <= i].step

\* the events the generator can return in more than one step, added at most
\* once per step as step() adds them
FiredAsGenerated ==
    {name \in UNION {calls[i].events : i \in DOMAIN calls} :
        /\ EventNamed(name).trigger_time = NoTrigger
        /\ ~EventNamed(name).one_time
        /\ \A i \in EventAdds(name), j \in EventAdds(name) :
              i # j => calls[i].step # calls[j].step}

\* C26: an event that last fired at step s is absent from active_events
\* after finalize_update of a step t >= s + duration_quarters, also when it
\* fired more than once while active, and active_events never holds an
\* event without a start-step entry
C26_EventsExpire ==
    /\ ActiveEvents(state) \cap FiredAsGenerated \subseteq DOMAIN state.event_start_steps
    /\ last_call.op = "finalize_update" =>
          \A name \in ActiveEvents(last_call.pre) \cap FiredAsGenerated :
             last_call.step - EventLastAddStep(name) >= EventNamed(name).duration_quarters
                => name \notin ActiveEvents(state)

(***************************************************************************)
(* Tariff impact: calculate_tariff_impact on states with and without flow  *)
(* history, its result applied as the engine applies it.                   *)
(***************************************************************************)
\* flows China -> US a caller records: a full one, a later one that lacks
\* the manufacturing sector, and one whose volumes are all zero
SampleFlows ==
    LET vol1 == [sec \in {"technology", "manufacturing"} |->
                    IF sec = "technology" THEN 5000 ELSE 3000]
        vol2 == [sec \in {"technology"} |-> 4000]
        zero == [sec \in {"technology", "manufacturing"} |-> 0]
        valued(vol) == [sec \in DOMAIN vol |-> (vol[sec] * 11) \div 10]
    IN {TradeFlow("China", "US", 0, 0, vol1, valued(vol1)),
        TradeFlow("China", "US", 0, 1, vol2, valued(vol2)),
        TradeFlow("China", "US", 0, 2, zero, zero)}

SampleRateValues == {-1000, 0, 2500}

\* sector_rates over one or two sectors
SampleRateMaps ==
    [{"technology", "manufacturing"} -> SampleRateValues]
    \cup [{"technology"} -> SampleRateValues]

InitTariff ==
    /\ state = MockState
    /\ NoEngine
    /\ global_rng = 0
    /\ next_id = 1
    /\ calls = <<>>
    /\ last_call = [op |-> "init"]

\* state.trade_flows.append(flow), as tests/conftest.py builds its history
RecordFlow ==
    /\ \E flow \in SampleFlows \ Range(state.trade_flows) :
          /\ state' = [state EXCEPT !.trade_flows = Append(@, flow)]
          /\ last_call' = [op |-> "append_flow", flow |-> flow]
    /\ UNCHANGED <<engine_vars, global_rng, next_id, calls>>

ImposeTariff ==
    /\ Len(calls) < MaxTariffCalls
    /\ \E sector_rates \in SampleRateMaps, elasticity_multiplier \in {1, 2} :
          LET policy == TariffPolicy(next_id, "US", "China", sector_rates, 4)
              impact == calculate_tariff_impact(state, policy, "US", "China",
                                                state.gdp["US"], state.gdp["China"],
                                                elasticity_multiplier)
              call == [op |-> "calculate_tariff_impact", policy |-> policy,
                       impact |-> impact,
                       with_flows |-> FlowsBetween(state, "China", "US") # <<>>]
          IN /\ state' = apply_tariff_impact(add_tariff_policy(state, policy), impact)
             /\ calls' = Append(calls, call)
             /\ last_call' = call
    /\ next_id' = next_id + 1
    /\ UNCHANGED <<engine_vars, global_rng>>

NextTariff == RecordFlow \/ ImposeTariff

SpecTariff == InitTariff /\ [][NextTariff]_vars

AllRates(call, Test(_)) ==
    \A sec \in DOMAIN call.policy.sector_rates : Test(call.policy.sector_rates[sec])

AllChanges(call, Test(_)) ==
    \A sec \in DOMAIN call.impact.trade_volume_change :
       Test(call.impact.trade_volume_change[sec])

\* C6: calculate_tariff_impact on non-negative flow volumes: with every
\* sector rate >= 0 every trade_volume_change is <= 0 and the exporter's GDP
\* impact is <= 0; with every sector rate negative every trade_volume_change
\* is >= 0; with flow history for the pair and without
C6_TariffSign ==
    last_call.op = "calculate_tariff_impact" =>
       /\ DOMAIN last_call.impact.trade_volume_change = DOMAIN last_call.policy.sector_rates
       /\ AllRates(last_call, LAMBDA r : r >= 0) =>
             /\ AllChanges(last_call, LAMBDA c : c <= 0)
             /\ last_call.impact.exporter_gdp_impact <= 0
       /\ AllRates(last_call, LAMBDA r : r < 0) =>
             AllChanges(last_call, LAMBDA c : c >= 0)

\* one call without flow history under positive rates shrank every sector,
\* and the latest call, with flow history, grew every sector under negative
\* rates, one of them missing from the latest flow
C6_Witness ==
    /\ last_call.op = "calculate_tariff_impact"
    /\ last_call.with_flows
    /\ AllRates(last_call, LAMBDA r : r < 0)
    /\ AllChanges(last_call, LAMBDA c : c > 0)
    /\ \E sec \in DOMAIN last_call.policy.sector_rates :
          sec \notin DOMAIN LatestFlow(FlowsBetween(state, "China", "US")).sector_volumes
    /\ \E i \in DOMAIN calls :
          /\ ~calls[i].with_flows
          /\ AllRates(calls[i], LAMBDA r : r > 0)
          /\ AllChanges(calls[i], LAMBDA c : c < 0)
          /\ calls[i].impact.exporter_gdp_impact < 0

(***************************************************************************)
(* Trade flows: update_trade_balance on the state that                     *)
(* tests/test_economics.py builds for trade diversion.  Volumes are in     *)
(* hundredths of the test's units.                                         *)
(***************************************************************************)
SampleSeeds == {42, 7, 2024, 31337}

\* the US rates on China's and on Indonesia's manufacturing
SampleHighRates == {3500, 2500}

SampleLowRates == {500, 0}

ManufacturingFlow(exporter, importer, volume) ==
    TradeFlow(exporter, importer, 0, 0, [sec \in {"manufacturing"} |-> volume],
              [sec \in {"manufacturing"} |-> volume])

DiversionState(high, low) ==
    [MockState EXCEPT
        !.quarter = 1,
        !.trade_flows = <<ManufacturingFlow("Indonesia", "US", 10000),
                          ManufacturingFlow("US", "Indonesia", 3000),
                          ManufacturingFlow("China", "US", 30000)>>,
        !.active_tariff_policies =
            <<TariffPolicy(1, "US", "China", [sec \in {"manufacturing"} |-> high], 4),
              TariffPolicy(2, "US", "Indonesia", [sec \in {"manufacturing"} |-> low], 4)>>]

InitTrade ==
    /\ \E high \in SampleHighRates, low \in SampleLowRates :
          state = DiversionState(high, low)
    /\ NoEngine
    /\ global_rng \in {RngSeed(seed) : seed \in SampleSeeds}
    /\ next_id = 3
    /\ calls = <<>>
    /\ last_call = [op |-> "init"]

\* update_trade_balance(state, country1, country2) for the state's period
UpdateTradeBalance ==
    /\ Len(calls) < MaxTradeUpdates
    /\ \E country1 \in Range(state.countries), country2 \in Range(state.countries) :
          /\ country1 # country2
          /\ LET r == update_trade_balance(state, country1, country2, state.year,
                                           state.quarter, global_rng)
                 call == [op |-> "update_trade_balance", country1 |-> country1,
                          country2 |-> country2, pre |-> state,
                          balance |-> r.balance]
             IN /\ state' = r.state
                /\ global_rng' = r.rng
                /\ calls' = Append(calls, call)
                /\ last_call' = call
    /\ UNCHANGED <<engine_vars, next_id>>

\* mock_state.quarter = ..., the test moving the state to the next period
SetNextPeriod ==
    /\ last_call.op = "update_trade_balance"
    /\ Len(calls) < MaxTradeUpdates
    /\ state' = [state EXCEPT !.year = IF state.quarter = 3 THEN @ + 1 ELSE @,
                              !.quarter = (@ + 1) % 4]
    /\ last_call' = [op |-> "set_period"]
    /\ UNCHANGED <<engine_vars, global_rng, next_id, calls>>

NextTrade == UpdateTradeBalance \/ SetNextPeriod

SpecTrade == InitTrade /\ [][NextTrade]_vars

\* the rates importer's active policies put on exporter's sector
RatesOn(s, importer, exporter, sector) ==
    {p.sector_rates[sector] :
        p \in {q \in Range(get_active_tariff_policies(s, importer, exporter)) :
                  sector \in DOMAIN q.sector_rates}}

\* a rate gap that counts as materially higher: ten points
MaterialGap == RS \div 10

\* importer taxes X's sector materially higher than Y's
Diverting(s, importer, y, sector) ==
    \E x \in Range(s.countries) \ {importer, y} :
       \E rx \in RatesOn(s, importer, x, sector), ry \in RatesOn(s, importer, y, sector) :
          rx - ry >= MaterialGap

\* the flow exporter -> importer that the latest update appended
AppendedFlow(exporter, importer) ==
    LET new == SubSeq(state.trade_flows, Len(last_call.pre.trade_flows) + 1,
                      Len(state.trade_flows))
    IN CHOOSE f \in Range(new) : f.exporter = exporter /\ f.importer = importer

\* C7: when an importer taxes exporter X's sector materially higher than
\* exporter Y's, update_trade_balance(Y, importer) appends a Y -> importer
\* flow whose volume in that sector is strictly greater than in Y's previous-
\* period flow to that importer
C7_TradeDiversion ==
    last_call.op = "update_trade_balance" =>
       LET y == last_call.country1
           importer == last_call.country2
           pre == last_call.pre
           previous == FlowsBefore(pre, y, importer, pre.year, pre.quarter)
       IN \A sector \in {"manufacturing"} :
             (/\ Diverting(pre, importer, y, sector)
              /\ previous # <<>>
              /\ sector \in DOMAIN LatestFlow(previous).sector_volumes)
             => AppendedFlow(y, importer).sector_volumes[sector]
                   > LatestFlow(previous).sector_volumes[sector]

(***************************************************************************)
(* One EventGenerator and the generate_events calls made on it.            *)
(***************************************************************************)
\* EventGenerator(seed): with 59035 the first call draws the pandemic
SampleEventSeeds == {42, 59035}

\* (year, quarter) of a call; (2, 3) and (1, 7) are both timeline step 11
SampleEventPeriods == {<<2, 3>>, <<1, 7>>, <<0, 0>>, <<2, 2>>}

InitEvents ==
    /\ state = MockState
    /\ history = <<>> /\ countries = <<>>
    /\ current_year = 0 /\ current_quarter = 0
    /\ quarters_per_year = 4 /\ max_years = 0
    /\ agents = EmptyFn /\ pc = "none" /\ error = "none" /\ run = <<>>
    /\ triggered_events = {}
    /\ event_rng \in {RngSeed(seed) : seed \in SampleEventSeeds}
    /\ global_rng = 0
    /\ next_id = 1
    /\ calls = <<>>
    /\ last_call = [op |-> "init"]

\* event_generator.generate_events(state, year, quarter)
GenerateEvents ==
    /\ Len(calls) < MaxEventCalls
    /\ \E period \in SampleEventPeriods :
          \E r \in {generate_events(period[1], period[2], triggered_events, event_rng)} :
             LET call == [op |-> "generate_events", period |-> period,
                          pos |-> period[1] * 4 + period[2],
                          events |-> r.events, scheduled |-> r.scheduled,
                          randoms |-> r.randoms]
             IN /\ triggered_events' = r.triggered
                /\ event_rng' = r.rng
                /\ calls' = Append(calls, call)
                /\ last_call' = call
    /\ UNCHANGED <<state, history, countries, current_year, current_quarter, quarters_per_year, max_years, agents, pc, error, run, global_rng, next_id>>

NextEvents == GenerateEvents

SpecEvents == InitEvents /\ [][NextEvents]_vars

\* how often the calls so far have returned the event
RECURSIVE TimesReturned(_, _)
TimesReturned(log, name) ==
    IF log = <<>> THEN 0
    ELSE Len(SelectSeq(Head(log).events, LAMBDA e : e = name)) + TimesReturned(Tail(log), name)

EngineGdp(names) ==
    [n \in Range(names) |-> IF n \in DOMAIN ConftestGdp THEN ConftestGdp[n] ELSE RS]

\* SimulationEngine._initialize_agents: the agents dict, or the ValueError of
\* create_agent for the first name without an agent class
_initialize_agents_any_name(names) ==
    [error |-> "none", agents |-> [n \in Range(names) |-> create_agent(n, TRUE)]]

_initialize_agents(names) ==
    IF \E i \in DOMAIN names : names[i] \notin RegisteredNames
    THEN [error |-> "ValueError", agents |-> EmptyFn]
    ELSE [error |-> "none", agents |-> [n \in Range(names) |-> create_agent(n, TRUE)]]

\* SimulationEngine.__init__: the error raised, or the fields of the engine
EngineInit(names, start_year, seed) ==
    IF names = <<>> THEN [error |-> "ValueError", seeded |-> FALSE]
    ELSE LET made == _initialize_agents(names)
             fresh == SimulationState(names, EngineGdp(names), start_year, 0)
         IN [error |-> made.error, seeded |-> TRUE, agents |-> made.agents,
             state |-> _initialize_trade_flows(fresh, names, start_year, 0)]

SampleCountryLists ==
    {<<>>, <<"US", "China", "Indonesia">>, <<"Indonesia">>, <<"US", "ZeroLand">>}

SampleStartYears == {0, 2}

SampleEngineSeeds == {42}

\* what the advisor comes to for each agent in one step
SampleAdvice ==
    {[n \in AllNames |-> LLMError],
     [n \in AllNames |->
         IF n = "US"
         THEN Parsed(EconomicAction("US", "tariff_increase", "China", <<"technology">>, 2500))
         ELSE IF n = "Indonesia"
         THEN Parsed(EconomicAction("Indonesia", "import_quota", "China", <<"manufacturing">>, 3000))
         ELSE Unparseable]}

StepCalls == SelectSeq(calls, LAMBDA c : c.op = "step")

InitEngine ==
    /\ state = SimulationState(<<>>, EmptyFn, 0, 0)
    /\ NoEngine
    /\ global_rng = 0
    /\ next_id = 1
    /\ calls = <<>>
    /\ last_call = [op |-> "init"]

\* SimulationEngine(countries, start_year) under a configured random seed
Construct ==
    /\ pc = "none"
    /\ \E names \in SampleCountryLists, start_year \in SampleStartYears, seed \in SampleEngineSeeds :
          LET made == EngineInit(names, start_year, seed)
              call == [op |-> "construct", countries |-> names, start_year |-> start_year]
          IN /\ calls' = Append(calls, call)
             /\ last_call' = call
             /\ global_rng' = IF made.seeded THEN RngSeed(seed) ELSE global_rng
             /\ error' = made.error
             /\ IF made.error # "none"
                THEN /\ pc' = "failed"
                     /\ UNCHANGED <<state, history, countries, current_year, current_quarter, quarters_per_year, max_years, agents, triggered_events, event_rng, run>>
                ELSE /\ pc' = "ready"
                     /\ state' = made.state
                     /\ countries' = names
                     /\ current_year' = start_year
                     /\ current_quarter' = 0
                     /\ quarters_per_year' = 4
                     /\ max_years' = 5
                     /\ agents' = made.agents
                     /\ event_rng' = RngSeed(seed)
                     /\ UNCHANGED <<history, triggered_events, run>>
    /\ UNCHANGED next_id


\* (max_years, quarters_per_year) a caller sets
SampleRunLengths == {<<1, 2>>, <<2, 1>>, <<2, 2>>}

\* engine.max_years = n; engine.quarters_per_year = q, set on the new engine
\* as the tests and the API do
Configure ==
    /\ pc = "ready"
    /\ Len(calls) = 1
    /\ \E nq \in SampleRunLengths :
          /\ max_years' = nq[1]
          /\ quarters_per_year' = nq[2]
          /\ calls' = Append(calls, [op |-> "configure"])
          /\ last_call' = [op |-> "configure"]
    /\ UNCHANGED <<state, history, countries, current_year, current_quarter, agents, triggered_events, event_rng, global_rng, pc, error, run, next_id>>

\* step(): the period after (year, quarter)
NextPeriod_no_rollover(year, quarter, per_year) == <<year, quarter + 1>>

NextPeriod(year, quarter, per_year) ==
    IF quarter + 1 >= per_year THEN <<year + 1, 0>> ELSE <<year, quarter + 1>>

\* run_full_simulation: the period of its i-th loop iteration, from 0
RunPeriod_same_year(start_year, i, per_year) == <<start_year, i % per_year>>

RunPeriod(start_year, i, per_year) == <<start_year + (i \div per_year), i % per_year>>

\* the step with run_full_simulation appending the state itself instead of
\* its clone: every entry of the history is the live state object
Stepped_history_of_live_state(period, advice, explicit, in_run) ==
    LET call == [op |-> "step", in_run |-> in_run, explicit |-> explicit, period |-> period,
                 engine_time |-> <<current_year, current_quarter>>,
                 state_time |-> <<state.year, state.quarter>>,
                 per_year |-> quarters_per_year]
    IN \E r \in {StepAt(state, countries, agents, period[1], period[2], advice, triggered_events, event_rng, global_rng, next_id)} :
          \E after \in {IF in_run THEN clone(r.state) ELSE r.state} :
             /\ current_year' = period[1]
             /\ current_quarter' = period[2]
             /\ state' = after
             /\ history' = [k \in 1..(Len(history) + (IF in_run THEN 1 ELSE 0)) |-> after]
             /\ agents' = r.agents
             /\ triggered_events' = r.triggered_events
             /\ event_rng' = r.event_rng
             /\ global_rng' = r.global_rng
             /\ next_id' = r.next_id
             /\ calls' = Append(calls, call)
             /\ last_call' = call @@ [reads |-> r.reads]

\* the engine after step() has run for the period given
Stepped(period, advice, explicit, in_run) ==
    LET call == [op |-> "step", in_run |-> in_run, explicit |-> explicit, period |-> period,
                 engine_time |-> <<current_year, current_quarter>>,
                 state_time |-> <<state.year, state.quarter>>,
                 per_year |-> quarters_per_year]
    IN \E r \in {StepAt(state, countries, agents, period[1], period[2], advice, triggered_events, event_rng, global_rng, next_id)} :
          \E after \in {IF in_run THEN clone(r.state) ELSE r.state} :
             /\ current_year' = period[1]
             /\ current_quarter' = period[2]
             /\ state' = after
             /\ history' = IF in_run THEN Append(history, after) ELSE history
             /\ agents' = r.agents
             /\ triggered_events' = r.triggered_events
             /\ event_rng' = r.event_rng
             /\ global_rng' = r.global_rng
             /\ next_id' = r.next_id
             /\ calls' = Append(calls, call)
             /\ last_call' = call @@ [reads |-> r.reads]

\* engine.step()
Step ==
    /\ pc = "ready"
    /\ Len(StepCalls) < MaxSteps
    /\ \E advice \in SampleAdvice :
          Stepped(NextPeriod(current_year, current_quarter, quarters_per_year), advice, FALSE, FALSE)
    /\ UNCHANGED <<countries, quarters_per_year, max_years, pc, error, run>>

\* a period a caller passes, its quarter beyond the year
SampleExplicitPeriods == {<<1, 7>>}

\* engine.step(year, quarter)
StepExplicit ==
    /\ pc = "ready"
    /\ Len(StepCalls) < MaxSteps
    /\ Len(SelectSeq(StepCalls, LAMBDA c : c.explicit)) < MaxExplicitSteps
    /\ \E period \in SampleExplicitPeriods : Stepped(period, [n \in AllNames |-> LLMError], TRUE, FALSE)
    /\ UNCHANGED <<countries, quarters_per_year, max_years, pc, error, run>>

\* run_full_simulation up to its loops
RunBegin ==
    /\ pc = "ready"
    /\ Len(StepCalls) + max_years * quarters_per_year <= MaxSteps
    /\ pc' = "running"
    /\ run' = [start_year |-> state.year, i |-> 0, n |-> max_years,
               fresh |-> StepCalls = <<>> /\ history = <<>>]
    /\ calls' = Append(calls, [op |-> "run_begin"])
    /\ last_call' = [op |-> "run_begin"]
    /\ UNCHANGED <<state, history, countries, current_year, current_quarter, quarters_per_year, max_years, agents, triggered_events, event_rng, global_rng, error, next_id>>

\* one iteration of the inner loop: step(year, quarter), then
\* history.append(state.clone())
RunIterate ==
    /\ pc = "running"
    /\ run.i < run.n * quarters_per_year
    /\ \E advice \in SampleAdvice :
          Stepped(RunPeriod(run.start_year, run.i, quarters_per_year), advice, FALSE, TRUE)
    /\ run' = [run EXCEPT !.i = @ + 1]
    /\ UNCHANGED <<countries, quarters_per_year, max_years, pc, error>>

\* the loops are over: return self.history
RunReturn ==
    /\ pc = "running"
    /\ run.i = run.n * quarters_per_year
    /\ pc' = "ready"
    /\ calls' = Append(calls, [op |-> "run_end"])
    /\ last_call' = [op |-> "run_full_simulation", fresh |-> run.fresh, n |-> run.n,
                     per_year |-> quarters_per_year]
    /\ UNCHANGED <<state, history, countries, current_year, current_quarter, quarters_per_year, max_years, agents, triggered_events, event_rng, global_rng, error, run, next_id>>

Init == InitEngine

Next ==
    \/ Construct
    \/ Configure
    \/ Step
    \/ StepExplicit
    \/ RunBegin
    \/ RunIterate
    \/ RunReturn

Spec == Init /\ [][Next]_vars

\* get_trade_balance over the pairs of distinct countries of one state
Antisymmetric(s) ==
    \A a \in Range(s.countries), b \in Range(s.countries) :
        a # b => get_trade_balance(s, a, b) = -get_trade_balance(s, b, a)

\* C1: in the engine's state after any sequence of steps, and in every
\* snapshot recorded in the history, get_trade_balance(A, B) is the exact
\* negative of get_trade_balance(B, A) for every two distinct countries
C1_TradeBalanceAntisymmetric ==
    /\ Antisymmetric(state)
    /\ \A k \in DOMAIN history : Antisymmetric(history[k])

\* steps have moved the flows: a snapshot and the live state show different,
\* non-zero balances between the US and China
C1_Witness ==
    /\ Len(history) >= 2
    /\ "US" \in Range(state.countries)
    /\ get_trade_balance(state, "US", "China") # 0
    /\ get_trade_balance(history[1], "US", "China") # 0
    /\ get_trade_balance(history[1], "US", "China") # get_trade_balance(state, "US", "China")

\* the k-th period, from 1, of a run of q quarters a year from start_year
KthPeriod(start_year, k, q) == <<start_year + ((k - 1) \div q), (k - 1) % q>>

\* C2: run_full_simulation on a new engine with max_years = N and
\* quarters_per_year = Q has performed exactly N*Q steps when it returns, the
\* k-th for the k-th period of (start_year + i, q), i in 0..N-1, q in 0..Q-1,
\* in increasing order, and the history it returns has N*Q entries, the k-th
\* carrying the k-th period
C2_RunFullSimulation ==
    (last_call.op = "run_full_simulation" /\ last_call.fresh) =>
        LET total == max_years * quarters_per_year
            start_year == calls[1].start_year
        IN /\ Len(StepCalls) = total
           /\ Len(history) = total
           /\ \A k \in 1..total :
                 /\ StepCalls[k].period = KthPeriod(start_year, k, quarters_per_year)
                 /\ history[k].year = start_year + ((k - 1) \div quarters_per_year)
                 /\ history[k].quarter = (k - 1) % quarters_per_year
           /\ \A j \in 1..total, k \in 1..total :
                 j < k => \/ history[j].year < history[k].year
                          \/ /\ history[j].year = history[k].year
                             /\ history[j].quarter < history[k].quarter

\* a run over two years has returned
C2_Witness ==
    /\ last_call.op = "run_full_simulation"
    /\ last_call.fresh
    /\ max_years = 2
    /\ Len(history) = 2 * quarters_per_year
    /\ history[Len(history)].year = calls[1].start_year + 1

\* every step so far was a step() without a period
OnlyPlainSteps == \A k \in DOMAIN StepCalls : ~StepCalls[k].explicit /\ ~StepCalls[k].in_run

\* the quarter after (year, quarter), per_year quarters a year
OneQuarterOn(time, per_year) ==
    IF time[2] + 1 < per_year THEN <<time[1], time[2] + 1>> ELSE <<time[1] + 1, 0>>

\* C3: a step() without a period moves the engine's time and the state's
\* time one quarter on, to (year, quarter + 1) if quarter + 1 <
\* quarters_per_year and to (year + 1, 0) otherwise; from (start_year, 0),
\* after any number of such calls, the quarter is in [0, quarters_per_year)
\* and the engine's time is the state's
C3_StepAdvancesOneQuarter ==
    /\ (last_call.op = "step" /\ ~last_call.explicit /\ ~last_call.in_run) =>
          /\ <<current_year, current_quarter>> = OneQuarterOn(last_call.engine_time, quarters_per_year)
          /\ <<state.year, state.quarter>> = OneQuarterOn(last_call.state_time, quarters_per_year)
    /\ (pc = "ready" /\ OnlyPlainSteps) =>
          /\ current_quarter \in 0..(quarters_per_year - 1)
          /\ <<current_year, current_quarter>> = <<state.year, state.quarter>>
          /\ current_year * quarters_per_year + current_quarter = calls[1].start_year * quarters_per_year + Len(StepCalls)

\* a step() has rolled the year over
C3_Witness ==
    /\ last_call.op = "step" /\ ~last_call.explicit /\ ~last_call.in_run
    /\ OnlyPlainSteps
    /\ last_call.engine_time[2] = quarters_per_year - 1
    /\ current_quarter = 0
    /\ current_year = calls[1].start_year + 1

IsPrefix(q, r) == Len(q) <= Len(r) /\ SubSeq(r, 1, Len(q)) = q

\* the indicator series and the action log after the steps made so far
SeriesComplete ==
    pc \in {"ready", "running"} =>
        LET k == Len(StepCalls)
            n == Len(countries)
        IN /\ \A c \in Range(countries) :
                 /\ Len(state.economic_indicators[c]) = k
                 /\ \A j \in 1..k :
                       <<state.economic_indicators[c][j].year,
                         state.economic_indicators[c][j].quarter>> = StepCalls[j].period
           /\ Len(state.all_actions) = k * Cardinality(DOMAIN agents)
           /\ \A j \in 1..k, i \in 1..n :
                 state.all_actions[(j - 1) * n + i].country = countries[i]

\* what is in the series and in the log stays as it is
SeriesKept ==
    /\ \A c \in DOMAIN state.economic_indicators :
          /\ c \in DOMAIN state'.economic_indicators
          /\ IsPrefix(state.economic_indicators[c], state'.economic_indicators[c])
    /\ IsPrefix(state.all_actions, state'.all_actions)

\* C11: every step appends exactly one indicator for each country, dated
\* with the step's (year, quarter): after k steps every country's series has
\* k entries, the j-th dated with the j-th step's period, no step removes or
\* changes an earlier entry, and all_actions has grown by one action for each
\* agent in each step
C11_IndicatorSeries == []SeriesComplete /\ [][SeriesKept]_vars

\* three countries have three indicators each, of three different periods
C11_Witness ==
    /\ Len(countries) = 3
    /\ Len(StepCalls) = 3
    /\ Len(state.economic_indicators["China"]) = 3
    /\ Len(state.all_actions) = 9
    /\ \E j \in 1..3 : StepCalls[j].explicit
    /\ \A i \in 1..3, j \in 1..3 :
          i # j => StepCalls[i].period # StepCalls[j].period

\* every TradeFlow record of the state is still there afterwards, at its
\* place and with the sector volumes and sector values it had
FlowsKept == IsPrefix(state.trade_flows, state'.trade_flows)

\* C15: trade flows are append-only: no action or step changes the sector
\* volumes or sector values of a TradeFlow that is in state.trade_flows or
\* removes it; a step only adds records
C15_FlowsAppendOnly == [][FlowsKept]_vars

\* the actions a step has logged, and the policies it has installed: each
\* country has as many new policies to its name as tariff actions, and
\* every new policy starts at the step's index
TariffActionsInstalled ==
    (pc \in {"ready", "running"} /\ Len(state'.all_actions) > Len(state.all_actions)) =>
        LET actions == SubSeq(state'.all_actions, Len(state.all_actions) + 1,
                              Len(state'.all_actions))
            new == SelectSeq(state'.active_tariff_policies, LAMBDA p : p.id >= next_id)
        IN /\ \A n \in Range(countries) :
                 Cardinality({i \in DOMAIN actions :
                                 actions[i].country = n /\ IsTariffAction(actions[i])})
                     = Cardinality({j \in DOMAIN new : new[j].source_country = n})
           /\ \A j \in DOMAIN new :
                 state'.policy_start_steps[new[j].id] = CurrentStep(state')

\* C17: for every action of type tariff_increase, tariff_adjustment or
\* tariff_decrease an agent issues in a step, the engine installs exactly
\* one new TariffPolicy whose source is the acting country and records its
\* start step as the current step
C17_TariffActionInstallsPolicy == [][TariffActionsInstalled]_vars

\* the steps run_full_simulation made
RunSteps == SelectSeq(StepCalls, LAMBDA c : c.in_run)

\* the i-th entry of the history carries the period of the i-th step of the
\* runs
SnapshotPeriods ==
    /\ Len(history) = Len(RunSteps)
    /\ \A k \in DOMAIN history : <<history[k].year, history[k].quarter>> = RunSteps[k].period

\* the entries of the history stay as they are, and an entry added is the
\* state as of the end of the step
SnapshotsKept ==
    /\ IsPrefix(history, history')
    /\ Len(history') > Len(history) =>
          /\ Len(history') = Len(history) + 1
          /\ history'[Len(history')] = state'

\* C19: each history entry clone() produced is an independent snapshot:
\* later steps of the engine leave the year, quarter, GDPs, trade flows,
\* indicators and active policies and events of an earlier entry as they
\* were, and the i-th entry shows the state as of the end of the i-th step
C19_HistorySnapshots == []SnapshotPeriods /\ [][SnapshotsKept]_vars

\* a run of two steps and a step after it: the first entry differs from the
\* second and both from the live state, in period, GDP and flows
C19_Witness ==
    /\ Len(history) >= 2
    /\ last_call.op = "step" /\ ~last_call.in_run
    /\ history[1].gdp # history[2].gdp
    /\ history[2].gdp # state.gdp
    /\ history[1].trade_flows # history[2].trade_flows
    /\ Len(history[2].trade_flows) < Len(state.trade_flows)
    /\ \E k \in DOMAIN history[2].trade_flows : history[2].trade_flows[k] # state.trade_flows[k]

\* the step index of a period under the engine's quarters_per_year
StepIndex(period) == period[1] * quarters_per_year + period[2]

\* the places in all_actions of the tariff actions that name a target: the
\* k-th of them made the policy of identity k
InstallingActions == {a \in DOMAIN state.all_actions :
                        /\ IsTariffAction(state.all_actions[a])
                        /\ state.all_actions[a].target_country # NoTarget}

PolicyOf(a) == Cardinality({b \in InstallingActions : b <= a})

\* the step in which the action at place a of all_actions was issued
StepOfAction(a) == ((a - 1) \div Cardinality(DOMAIN agents)) + 1

\* the duration the agents give every policy they make
AgentPolicyDuration == 4

\* C21: at the end of every step, for any configured quarters_per_year, a
\* policy is in the active set iff current_step - start_step <
\* duration_quarters, the step index being year * quarters_per_year + quarter
C21_ActiveIffWithinDuration ==
    last_call.op = "step" =>
        \A a \in InstallingActions :
           (PolicyOf(a) \in ActivePolicies(state))
              <=> (StepIndex(last_call.period) - StepIndex(StepCalls[StepOfAction(a)].period)
                      < AgentPolicyDuration)

\* a step of step() or of run_full_simulation begins on a state that holds,
\* for each direction of every pair of countries, a flow dated strictly
\* before the step's period
StepFindsEarlierFlows ==
    (last_call'.op = "step" /\ calls' # calls /\ ~last_call'.explicit) =>
        \A a \in Range(countries), b \in Range(countries) :
           a # b => FlowsBefore(state, a, b, last_call'.period[1], last_call'.period[2]) # <<>>

\* C22: after construction with at least two countries no trade-balance
\* update sees a cold start: in every step, driven by step() or by
\* run_full_simulation, each direction of every pair has a stored flow
\* dated strictly before the step's period, so no baseline is synthesized
C22_NoColdStart == [][StepFindsEarlierFlows]_vars

\* the positions of the flows exporter -> importer dated (year, quarter)
FlowsDated(s, exporter, importer, period) ==
    {i \in DOMAIN s.trade_flows :
        /\ s.trade_flows[i].exporter = exporter /\ s.trade_flows[i].importer = importer
        /\ <<s.trade_flows[i].year, s.trade_flows[i].quarter>> = period}

GrowthOverStep ==
    (last_call'.op = "step" /\ calls' # calls /\ StepCalls # <<>>) =>
        \A n \in Range(countries) :
           state.gdp[n] > 0 =>
              state'.economic_indicators[n][Len(state'.economic_indicators[n])].gdp_growth
                 = ((state'.gdp[n] - state.gdp[n]) * RS) \div state.gdp[n]

\* C28: for every step after the first, the gdp_growth of the appended
\* indicator is (GDP at the end of this step - GDP at the end of the
\* previous step) / GDP at the end of the previous step, whether the steps
\* are driven by step() or by run_full_simulation
C28_GrowthFromPreviousStep == [][GrowthOverStep]_vars

\* the state without the policy of the identity given
WithoutPolicy(s, id) ==
    [s EXCEPT !.active_tariff_policies = SelectSeq(@, LAMBDA p : p.id # id)]

\* the volumes and values _calculate_updated_trade_flow derives from the
\* latest earlier flow exporter -> importer under the importer's policies
TariffedFlow(s, exporter, importer) ==
    LET Tariffed(prev) ==
            ApplyPoliciesToFlow(prev.sector_volumes, prev.sector_values,
                                get_active_tariff_policies(s, importer, exporter))
    IN Tariffed(LatestFlow(FlowsBefore(s, exporter, importer, s.year, s.quarter)))

\* the actions of the latest step that installed a tariff policy
InstalledNow == {a \in InstallingActions : StepOfAction(a) = Len(StepCalls)}

\* C23: a tariff policy installed by an action of step t is among the active
\* policies when step t's GDP growth and step t's new trade flows are
\* computed, and it changes the tariff term of the growth of both countries
\* and the flow its source imports from its target
C23_InstalledPolicyActsInItsStep ==
    last_call.op = "step" =>
        \A a \in InstalledNow :
           LET source == state.all_actions[a].country
               target == state.all_actions[a].target_country
               id == PolicyOf(a)
           IN /\ id \in ActivePolicies(last_call.reads.gdp)
              /\ id \in ActivePolicies(last_call.reads.trade)
              /\ \A n \in {source, target} :
                    _calculate_tariff_gdp_impact(last_call.reads.gdp, n)
                       # _calculate_tariff_gdp_impact(WithoutPolicy(last_call.reads.gdp, id), n)
              /\ FlowsBefore(last_call.reads.trade, target, source,
                             last_call.period[1], last_call.period[2]) # <<>>
                    => TariffedFlow(last_call.reads.trade, target, source)
                          # TariffedFlow(WithoutPolicy(last_call.reads.trade, id), target, source)

\* a step in which the US and China each installed a policy that was read
C23_Witness ==
    /\ last_call.op = "step"
    /\ \E a \in InstalledNow : state.all_actions[a].country = "US"
    /\ \E a \in InstalledNow :
          /\ state.all_actions[a].country = "China"
          /\ FlowsBefore(last_call.reads.trade, "US", "China",
                         last_call.period[1], last_call.period[2]) # <<>>

(***************************************************************************)
(* Two engines in one process.  The variables hold the first engine, run   *)
(* holds the second one, and global_rng is the generator of the random     *)
(* module, which both use.  last_call.alone is the first engine as it is   *)
(* when no second engine exists: the same seed, the same decisions.        *)
(***************************************************************************)
\* the fields of an engine that its steps change, and the generator of the
\* random module as the engine finds it
EngineFields(s, agts, triggered, ev_rng, rng, id) ==
    [built |-> TRUE, state |-> s, agents |-> agts, triggered_events |-> triggered,
     event_rng |-> ev_rng, global_rng |-> rng, next_id |-> id]

\* engine.step() of an engine given by its fields, on the generator given
StepOf(engine, advice, rng) ==
    LET period == NextPeriod(engine.state.year, engine.state.quarter, 4)
        Fields(r) == EngineFields(r.state, r.agents, r.triggered_events, r.event_rng,
                                  r.global_rng, r.next_id)
    IN Fields(StepAt(engine.state, ConftestCountries, engine.agents, period[1], period[2],
                     advice, engine.triggered_events, engine.event_rng, rng, engine.next_id))

\* SimulationEngine(countries) under config.simulation.random_seed
NewEngine(seed) ==
    LET made == EngineInit(ConftestCountries, 0, seed)
    IN EngineFields(made.state, made.agents, {}, RngSeed(seed), RngSeed(seed), 1)

InitEngines ==
    /\ \E first \in {NewEngine(seed) : seed \in SampleEngineSeeds} :
          /\ state = first.state
          /\ agents = first.agents
          /\ event_rng = first.event_rng
          /\ global_rng = first.global_rng
          /\ last_call = [op |-> "construct", alone |-> first]
    /\ history = <<>> /\ countries = ConftestCountries
    /\ current_year = 0 /\ current_quarter = 0
    /\ quarters_per_year = 4 /\ max_years = 5
    /\ triggered_events = {}
    /\ pc = "ready" /\ error = "none"
    /\ run = [built |-> FALSE]
    /\ next_id = 1
    /\ calls = <<>>

\* first.step(), with the same step made by the engine that is alone
StepFirst ==
    /\ Len(SelectSeq(calls, LAMBDA c : c = "first.step")) < MaxSteps
    /\ \E advice \in SampleAdvice :
          \E r \in {StepOf(EngineFields(state, agents, triggered_events, event_rng, global_rng, next_id),
                           advice, global_rng)} :
             \E a \in {StepOf(last_call.alone, advice, last_call.alone.global_rng)} :
                /\ state' = r.state
                /\ agents' = r.agents
                /\ triggered_events' = r.triggered_events
                /\ event_rng' = r.event_rng
                /\ global_rng' = r.global_rng
                /\ next_id' = r.next_id
                /\ current_year' = r.state.year
                /\ current_quarter' = r.state.quarter
                /\ last_call' = [op |-> "first.step", alone |-> a]
    /\ calls' = Append(calls, "first.step")
    /\ UNCHANGED <<history, countries, quarters_per_year, max_years, pc, error, run>>

\* second = SimulationEngine(countries): random.seed(...) on the generator
\* of the module
ConstructSecond ==
    /\ ~run.built
    /\ \E second \in {NewEngine(seed) : seed \in SampleEngineSeeds} :
          /\ run' = second
          /\ global_rng' = second.global_rng
    /\ calls' = Append(calls, "second.construct")
    /\ last_call' = [op |-> "second.construct", alone |-> last_call.alone]
    /\ UNCHANGED <<state, history, countries, current_year, current_quarter, quarters_per_year, max_years, agents, triggered_events, event_rng, pc, error, next_id>>

\* second.step(): its draws come from the generator of the module
StepSecond ==
    /\ run.built
    /\ Len(SelectSeq(calls, LAMBDA c : c = "second.step")) < MaxOtherSteps
    /\ \E r \in {StepOf(run, [n \in AllNames |-> LLMError], global_rng)} :
          /\ run' = r
          /\ global_rng' = r.global_rng
    /\ calls' = Append(calls, "second.step")
    /\ last_call' = [op |-> "second.step", alone |-> last_call.alone]
    /\ UNCHANGED <<state, history, countries, current_year, current_quarter, quarters_per_year, max_years, agents, triggered_events, event_rng, pc, error, next_id>>

NextEngines == StepFirst \/ ConstructSecond \/ StepSecond

SpecEngines == InitEngines /\ [][NextEngines]_vars

\* C20: engines that each own their state share no mutable state: the states
\* an engine produces from a given seed and given agent decisions are the
\* same whether or not another engine is constructed or stepped, in the same
\* process, between its steps
C20_EnginesIndependent == state = last_call.alone.state

(***************************************************************************)
(* The stability analyzer on a state taken through quarters the way the    *)
(* engine takes it: the GDPs change, _update_economic_indicators appends   *)
(* the flows and the indicators, clone() records the GDP snapshot.  The    *)
(* quarter's growth is any rate calculate_gdp_impact can return, which     *)
(* bounds it to [-0.08, 0.10].                                             *)
(***************************************************************************)
\* the GDPs of the countries: conftest.py's, and with Indonesia's at 0.0
SampleGdps ==
    {ConftestGdp, [ConftestGdp EXCEPT !["Indonesia"] = 0]}

\* quarterly growth of every country, -3% or +5%
SampleGrowths == {-300, 500}

SamplePolicies ==
    <<[source_country |-> "US", target_country |-> "China",
       sector_rates |-> [sec \in {"technology", "manufacturing"} |->
                            IF sec = "technology" THEN 2500 ELSE 1500]],
      [source_country |-> "China", target_country |-> "US",
       sector_rates |-> [sec \in {"technology"} |-> 0]]>>

InitStability ==
    /\ state \in {_initialize_trade_flows(SimulationState(ConftestCountries, gdp, 0, 0),
                                          ConftestCountries, 0, 0) : gdp \in SampleGdps}
    /\ NoEngine
    /\ global_rng = RngSeed(42)
    /\ next_id = 1
    /\ calls = <<>>
    /\ last_call = [op |-> "init"]

\* one quarter: the GDPs grow, the engine's _update_economic_indicators
\* runs for the next period, and the state is cloned into the history
StabilityQuarter ==
    /\ Len(state.economic_indicators["US"]) < MaxQuarters
    /\ \E growth \in SampleGrowths :
          \E period \in {NextPeriod(state.year, state.quarter, 4)} :
             \E r \in {_update_economic_indicators(
                          [state EXCEPT !.gdp = [n \in DOMAIN @ |-> Scale(@[n], growth)],
                                        !.year = period[1], !.quarter = period[2]],
                          period[1], period[2], global_rng)} :
                /\ state' = clone(r.state)
                /\ global_rng' = r.rng
                /\ last_call' = [op |-> "quarter", growth |-> growth]
    /\ UNCHANGED <<engine_vars, next_id, calls>>

\* state.add_tariff_policy(policy) while the state is set up, the policies
\* of SamplePolicies in order
StabilityImpose ==
    /\ state.economic_indicators["US"] = <<>>
    /\ next_id <= Len(SamplePolicies)
    /\ LET policy == TariffPolicy(next_id, SamplePolicies[next_id].source_country,
                                   SamplePolicies[next_id].target_country,
                                   SamplePolicies[next_id].sector_rates, 4)
       IN /\ state' = add_tariff_policy(state, policy)
          /\ last_call' = [op |-> "add_tariff_policy", policy |-> policy]
    /\ next_id' = next_id + 1
    /\ UNCHANGED <<engine_vars, global_rng, calls>>

\* state.add_events([event]) while the state is set up
StabilityEvents ==
    /\ state.economic_indicators["US"] = <<>>
    /\ state.event_start_steps = EmptyFn
    /\ state.active_events = <<>>
    /\ calls = <<>>
    /\ state' = add_events(state, <<"Major AI Breakthrough">>)
    /\ calls' = <<[op |-> "add_events"]>>
    /\ last_call' = [op |-> "add_events"]
    /\ UNCHANGED <<engine_vars, global_rng, next_id>>

\* analyzer.analyze_country_stability(state, country) and
\* analyzer.analyze_global_stability(state)
Analyze ==
    /\ \E n \in Range(state.countries) :
          last_call' = [op |-> "analyze", country |-> n, gdp |-> state.gdp[n],
                        of_country |-> analyze_country_stability(state, n, state.gdp[n]),
                        global |-> analyze_global_stability(state)]
    /\ UNCHANGED <<state, engine_vars, global_rng, next_id, calls>>

NextStability == StabilityQuarter \/ StabilityImpose \/ StabilityEvents \/ Analyze

SpecStability == InitStability /\ [][NextStability]_vars

\* a result is a score within [0, 1]
InUnitRange(result) == result.error = "none" /\ result.score \in 0..ScoreOne

\* C13: analyze_global_stability and analyze_country_stability return a
\* score within [0, 1] on every state whose indicators finalize_update made
\* and whose tariff rates are non-negative; the countries here have a
\* positive GDP
C13_StabilityScoreInRange ==
    (last_call.op = "analyze" /\ \A n \in DOMAIN state.gdp : state.gdp[n] > 0) =>
        /\ InUnitRange(last_call.of_country)
        /\ InUnitRange(last_call.global)

\* the latest indicators of the country carry a non-empty trade balance
HasTradeBalances(s, name) ==
    /\ s.economic_indicators[name] # <<>>
    /\ DOMAIN Last(s.economic_indicators[name]).trade_balance # {}

\* C14: with a country of GDP 0 in the state and indicators with non-empty
\* trade balances recorded, analyze_country_stability for that country and
\* analyze_global_stability return a result instead of raising
C14_ZeroGdpNotFatal ==
    (/\ last_call.op = "analyze"
     /\ last_call.gdp = 0
     /\ HasTradeBalances(state, last_call.country)) =>
        /\ last_call.of_country.error = "none"
        /\ last_call.global.error = "none"

\* an action a caller makes out of the engine's own Country objects
CallerAction(country, action_type, target_country, sectors, magnitude) ==
    [EconomicAction(country, action_type, target_country, sectors, magnitude) EXCEPT !.fresh_target = FALSE]

(***************************************************************************)
(* Trade flows under policies with negative rates and under the actions    *)
(* of _apply_actions that rescale flows: the state of a constructed        *)
(* engine with one flow in digital services appended by the caller.        *)
(***************************************************************************)
\* source, target and rates within [-1, 1] of the policies imposed, in order
SampleFlowPolicies ==
    <<[source_country |-> "US", target_country |-> "China",
       sector_rates |-> [sec \in {"technology", "manufacturing"} |->
                            IF sec = "technology" THEN -(RS \div 2) ELSE RS]],
      [source_country |-> "China", target_country |-> "US",
       sector_rates |-> [sec \in {"agriculture", "digital_services"} |->
                            IF sec = "agriculture" THEN RS ELSE -(RS \div 2)]],
      [source_country |-> "US", target_country |-> "Indonesia",
       sector_rates |-> [sec \in {"manufacturing"} |-> -RS]]>>

SampleFlowActions ==
    {CallerAction("US", "import_quota", "China", <<>>, 5000),
     CallerAction("Indonesia", "import_quota", NoTarget, <<"manufacturing">>, 15000),
     CallerAction("China", "import_quota", "US", <<"services">>, -5000),
     CallerAction("US", "import_quota", "China", <<"manufacturing">>, 2500),
     CallerAction("China", "data_sovereignty", NoTarget, <<>>, 8000),
     CallerAction("Indonesia", "supply_chain_diversification", "US",
                  <<"manufacturing", "technology">>, 1500),
     CallerAction("US", "friend_shoring", "Indonesia", <<"manufacturing", "technology">>, 1000)}

InitFlows ==
    /\ \E gdp \in SampleGdps :
          LET made == _initialize_trade_flows(SimulationState(ConftestCountries, gdp, 0, 0),
                                              ConftestCountries, 0, 0)
          IN state = [made EXCEPT !.trade_flows =
                         Append(@, TradeFlow("US", "China", 0, 0,
                                             [sec \in {"digital_services"} |-> 500],
                                             [sec \in {"digital_services"} |-> 550]))]
    /\ NoEngine
    /\ global_rng = RngSeed(42)
    /\ next_id = 1
    /\ calls = <<>>
    /\ last_call = [op |-> "init"]

\* state.add_tariff_policy(policy) before the first quarter, the policies of
\* SampleFlowPolicies in order
FlowImpose ==
    /\ state.economic_indicators["US"] = <<>>
    /\ next_id <= Len(SampleFlowPolicies)
    /\ LET policy == TariffPolicy(next_id, SampleFlowPolicies[next_id].source_country,
                                   SampleFlowPolicies[next_id].target_country,
                                   SampleFlowPolicies[next_id].sector_rates, 4)
       IN /\ state' = add_tariff_policy(state, policy)
          /\ last_call' = [op |-> "add_tariff_policy", policy |-> policy]
    /\ next_id' = next_id + 1
    /\ UNCHANGED <<engine_vars, global_rng, calls>>

\* engine._apply_actions([action]) for an action that rescales flows
FlowAct ==
    /\ Len(state.all_actions) < MaxFlowActions
    /\ \E action \in SampleFlowActions :
          /\ state' = _apply_actions(state, <<action>>, next_id).state
          /\ last_call' = [op |-> "_apply_actions", action |-> action]
    /\ UNCHANGED <<engine_vars, global_rng, next_id, calls>>

\* the trade part of a step: the state moves to the next period and
\* _update_economic_indicators appends the period's flows
FlowQuarter ==
    /\ Len(state.economic_indicators["US"]) < MaxFlowQuarters
    /\ \E period \in {NextPeriod(state.year, state.quarter, 4)} :
          \E r \in {_update_economic_indicators(
                       [state EXCEPT !.year = period[1], !.quarter = period[2]],
                       period[1], period[2], global_rng)} :
             /\ state' = r.state
             /\ global_rng' = r.rng
             /\ last_call' = [op |-> "quarter", period |-> period]
    /\ UNCHANGED <<engine_vars, next_id, calls>>

NextFlows == FlowImpose \/ FlowAct \/ FlowQuarter

SpecFlows == InitFlows /\ [][NextFlows]_vars

\* C16: every sector volume and every sector value of every trade flow is
\* >= 0 in every reachable state, with non-negative initial GDPs and tariff
\* rates within [-1, 1], negative rates included, and after import-quota,
\* data-sovereignty and diversification actions
C16_FlowsNonNegative ==
    \A i \in DOMAIN state.trade_flows :
       /\ \A sec \in DOMAIN state.trade_flows[i].sector_volumes :
             state.trade_flows[i].sector_volumes[sec] >= 0
       /\ \A sec \in DOMAIN state.trade_flows[i].sector_values :
             state.trade_flows[i].sector_values[sec] >= 0

\* two quarters of flows made under an active policy with a negative rate,
\* an import quota and a data-sovereignty action applied, a volume that a
\* tariff took to zero in the latest quarter
C16_Witness ==
    /\ \E p \in Range(state.active_tariff_policies) :
          \E sec \in DOMAIN p.sector_rates : p.sector_rates[sec] < 0
    /\ \E a \in Range(state.all_actions) : a.action_type = "import_quota"
    /\ \E a \in Range(state.all_actions) : a.action_type = "data_sovereignty"
    /\ Len(state.economic_indicators["US"]) = 2
    /\ \E f \in Range(state.trade_flows) :
          /\ <<f.year, f.quarter>> = <<state.year, state.quarter>>
          /\ \E sec \in DOMAIN f.sector_volumes : f.sector_volumes[sec] = 0
          /\ \E sec \in DOMAIN f.sector_volumes : f.sector_volumes[sec] > 0

\* the flow after its listed sectors, where it has them, are multiplied by
\* 1 + delta / RS
Rescaled(flow, sectors, delta) ==
    [flow EXCEPT
        !.sector_volumes = [sec \in DOMAIN @ |->
                               IF sec \in sectors THEN Scale(@[sec], delta) ELSE @[sec]],
        !.sector_values = [sec \in DOMAIN @ |->
                              IF sec \in sectors /\ sec \in DOMAIN flow.sector_volumes
                              THEN Scale(@[sec], delta) ELSE @[sec]]]

\* _apply_actions([action]) has left the flows that Hit does not hold of as
\* they were and rescaled the listed sectors of the others
OnlyRescaled(action, Hit(_), delta) ==
    /\ Len(state'.trade_flows) = Len(state.trade_flows)
    /\ \A i \in DOMAIN state.trade_flows :
          state'.trade_flows[i] =
             IF Hit(state.trade_flows[i])
             THEN Rescaled(state.trade_flows[i], Range(action.sectors), delta)
             ELSE state.trade_flows[i]
    /\ \A i \in DOMAIN state.trade_flows :
          \A sec \in Range(action.sectors) \cap DOMAIN state.trade_flows[i].sector_volumes :
             (Hit(state.trade_flows[i]) /\ state.trade_flows[i].sector_volumes[sec] > 0) =>
                IF delta < 0
                THEN /\ state'.trade_flows[i].sector_volumes[sec]
                           < state.trade_flows[i].sector_volumes[sec]
                     /\ 10 * state'.trade_flows[i].sector_volumes[sec]
                           >= state.trade_flows[i].sector_volumes[sec] - 10
                ELSE /\ state'.trade_flows[i].sector_volumes[sec]
                           > state.trade_flows[i].sector_volumes[sec]
                     /\ 10 * state'.trade_flows[i].sector_volumes[sec]
                           <= 12 * state.trade_flows[i].sector_volumes[sec] + 10
    /\ state'.gdp = state.gdp

\* what C24 says of _apply_actions([action]) for the quotas Quota holds of
\* and for the redirecting actions
FlowActionFrame(Quota(_)) ==
    \A action \in {last_call'.action} :
       /\ (Quota(action) /\ action.action_type = "import_quota"
             /\ action.target_country # NoTarget /\ action.magnitude > 0) =>
             OnlyRescaled(action,
                          LAMBDA f : f.importer = action.country
                                     /\ f.exporter = action.target_country,
                          -Min(9000, action.magnitude))
       /\ (action.action_type \in {"supply_chain_diversification", "friend_shoring"}
             /\ action.target_country # NoTarget /\ action.magnitude > 0) =>
             OnlyRescaled(action, LAMBDA f : f.exporter = action.target_country,
                          Min(2000, action.magnitude))

Acted == Len(state'.all_actions) > Len(state.all_actions)

SampleOutcomes(name) ==
    {LLMError, Unparseable,
     Parsed(EconomicAction(name, "tariff_increase",
                           IF name = "China" THEN "US" ELSE "China", <<"technology">>, 2500))}

\* the action of the agent's rule-based logic on the state
RuleBased(name, s) ==
    IF name = "US" THEN USAgent_decide_without_llm(s)
    ELSE IF name = "China" THEN ChinaAgent_rule_based(s)
    ELSE IndonesiaAgent_decide_without_llm(s)

InitAgents ==
    /\ state = MockState
    /\ history = <<>> /\ countries = ConftestCountries
    /\ current_year = 0 /\ current_quarter = 0
    /\ quarters_per_year = 4 /\ max_years = 0
    /\ \E use_llm \in BOOLEAN :
          agents = [n \in Range(ConftestCountries) |-> create_agent(n, use_llm)]
    /\ triggered_events = {} /\ event_rng = 0
    /\ pc = "none" /\ error = "none" /\ run = <<>>
    /\ global_rng = 0
    /\ next_id = 1
    /\ calls = <<>>
    /\ last_call = [op |-> "init"]

\* action = agent.decide_action(state); agent.record_action(action);
\* state.add_action(action)
Decide ==
    /\ Len(state.all_actions) < MaxDecisions
    /\ \E n \in DOMAIN agents :
       \E advice \in SampleOutcomes(n) :
          \E action \in {decide_action(agents[n], state, advice)} :
             /\ agents' = [agents EXCEPT ![n] = record_action(@, action)]
             /\ state' = add_action(state, action)
             /\ last_call' = [op |-> "decide_action", country |-> n, llm |-> agents[n].llm,
                              advice |-> advice.outcome, pre |-> state, action |-> action]
    /\ UNCHANGED <<history, countries, current_year, current_quarter, quarters_per_year, max_years, triggered_events, event_rng, global_rng, pc, error, run, next_id, calls>>

NextAgents == Decide

SpecAgents == InitAgents /\ [][NextAgents]_vars

\* C18: an agent configured with an advisor whose advisor returns an error
\* marker or unparseable output returns exactly the action its rule-based
\* logic returns for the same state; in all cases decide_action returns an
\* action whose country is the agent's own
C18_AdvisorFallback ==
    last_call.op = "decide_action" =>
        /\ last_call.action.country = last_call.country
        /\ (last_call.llm /\ last_call.advice \in {"ERROR", "None"}) =>
               last_call.action = RuleBased(last_call.country, last_call.pre)

(***************************************************************************)
(* One action applied to an engine the way the engine's tests do it:       *)
(* _apply_actions([action]) and then _apply_economic_impacts([action]),    *)
(* with calculate_gdp_impact as coded or patched to return (0.0, {}).      *)
(***************************************************************************)
SampleImpactActions ==
    {CallerAction("US", "tech_export_control", "China", <<"technology">>, 2000),
     CallerAction("US", "tech_export_control", "China", <<"technology">>, 15000),
     CallerAction("China", "tech_export_control", "US", <<"technology">>, 0),
     CallerAction("Indonesia", "tech_export_control", "China", <<"technology">>, 2000),
     CallerAction("China", "industrial_subsidy", NoTarget, <<"manufacturing">>, 3000),
     CallerAction("US", "industrial_subsidy", NoTarget, <<"manufacturing">>, 100),
     CallerAction("Indonesia", "green_tech_investment", NoTarget, <<"green_technology">>, 2500),
     CallerAction("US", "tariff_increase", "China", <<"technology">>, 2500)}

ImpactCalls == SelectSeq(calls, LAMBDA c : c.op = "apply")

ApplyActionAndImpacts ==
    /\ pc = "ready"
    /\ Len(ImpactCalls) < MaxImpactCalls
    /\ \E action \in SampleImpactActions, gdp_model \in {"code", "zero"} :
          /\ action.country \in Range(countries)
          /\ LET applied == _apply_actions(state, <<action>>, next_id)
                 impacted == _apply_economic_impacts(applied.state, <<action>>, global_rng, gdp_model)
                 call == [op |-> "apply", action |-> action, gdp_model |-> gdp_model,
                          pre |-> state]
             IN /\ state' = impacted.state
                /\ global_rng' = impacted.rng
                /\ next_id' = applied.next_id
                /\ calls' = Append(calls, call)
                /\ last_call' = call
    /\ UNCHANGED engine_vars

NextImpact == Construct \/ ApplyActionAndImpacts

SpecImpact == InitEngine /\ [][NextImpact]_vars

\* the last call applied an action of one of the types given, with positive
\* magnitude
Applied(types) ==
    /\ last_call.op = "apply"
    /\ last_call.action.action_type \in types
    /\ last_call.action.magnitude > 0

\* after is before times 1 + rate / RS, to the unit of the fixed point
TimesOnePlus(before, after, rate) ==
    /\ before * rate <= (after - before) * RS
    /\ (after - before) * RS < before * rate + RS

\* after is before times 1 - rate / RS, to the unit of the fixed point
TimesOneMinus(before, after, rate) ==
    /\ before * rate <= (before - after) * RS
    /\ (before - after) * RS < before * rate + RS

\* C8: a tech_export_control of positive magnitude m against a country of
\* the simulation with positive GDP, applied by _apply_actions and then
\* _apply_economic_impacts with the growth of the GDP calculator held at
\* zero, leaves the target's GDP strictly smaller, at 1 - min(0.02, 0.02 m)
\* times what it was, and every other country's GDP as it was
C8_TechExportControl ==
    (/\ Applied({"tech_export_control"})
     /\ last_call.gdp_model = "zero"
     /\ last_call.action.target_country \in Range(countries)
     /\ last_call.pre.gdp[last_call.action.target_country] > 0) =>
        LET target == last_call.action.target_country
            before == last_call.pre.gdp
        IN /\ state.gdp[target] < before[target]
           /\ TimesOneMinus(before[target], state.gdp[target], Min(200, (2 * last_call.action.magnitude) \div 100))
           /\ \A n \in Range(countries) \ {target} : state.gdp[n] = before[n]

\* an export control above the cap was applied to a target of the simulation
C8_Witness ==
    /\ Applied({"tech_export_control"})
    /\ last_call.gdp_model = "zero"
    /\ last_call.action.target_country \in Range(countries)
    /\ last_call.action.magnitude > RS
    /\ state.gdp[last_call.action.target_country] < last_call.pre.gdp[last_call.action.target_country]

SampleRuleCountryLists ==
    {<<"US", "China", "Indonesia">>, <<"China", "US", "Indonesia">>,
     <<"US", "China">>, <<"China", "US">>}

SampleRuleSeeds == {42, 7, 99, 1234}

SampleRuleStartYears == {1, 2}

\* a flow of 0.06 trillion, dated the quarter before the engine starts
DeficitFlow(start_year) ==
    TradeFlow("China", "US", start_year - 1, 3,
              [sec \in {"manufacturing"} |-> 55000],
              [sec \in {"manufacturing"} |-> 60000])

InitRules ==
    /\ \E names \in SampleRuleCountryLists, start_year \in SampleRuleStartYears,
          seed \in SampleRuleSeeds, deficit \in BOOLEAN :
          LET made == EngineInit(names, start_year, seed)
          IN /\ state = IF deficit
                        THEN [made.state EXCEPT !.trade_flows =
                                 <<DeficitFlow(start_year)>> \o @]
                        ELSE made.state
             /\ countries = names
             /\ current_year = start_year
             /\ agents = [n \in Range(names) |-> create_agent(n, FALSE)]
             /\ event_rng = RngSeed(seed)
             /\ global_rng = RngSeed(seed)
    /\ history = <<>>
    /\ current_quarter = 0
    /\ quarters_per_year = 4 /\ max_years = 5
    /\ triggered_events = {}
    /\ pc = "ready" /\ error = "none" /\ run = <<>>
    /\ next_id = 1
    /\ calls = <<>>
    /\ last_call = [op |-> "init"]

\* engine.step() of the engine with rule-based agents
RuleStep ==
    /\ Len(StepCalls) < MaxRuleSteps
    /\ Stepped(NextPeriod(current_year, current_quarter, quarters_per_year),
               [n \in AllNames |-> LLMError], FALSE, FALSE)
    /\ UNCHANGED <<countries, quarters_per_year, max_years, pc, error, run>>

NextRules == RuleStep

SpecRules == InitRules /\ [][NextRules]_vars

\* the action of a country in the k-th step, and the log before that step
ActionInStep(k, name) ==
    state.all_actions[CHOOSE i \in ((k - 1) * Len(countries) + 1)..(k * Len(countries)) :
                         state.all_actions[i].country = name]

LogBeforeStep(k) == SubSeq(state.all_actions, 1, (k - 1) * Len(countries))

RecentBeforeStep(k) == LastN(LogBeforeStep(k), Min(Len(LogBeforeStep(k)), 10))

RetaliatoryFactor == 1

\* C30: with rule-based agents, the agents of a step decide on the state as
\* it was before any action of the step was recorded, and whenever the
\* US action of step t is a tariff_increase on China, China's action of step
\* t+1 is a tariff_increase on the US with the same sectors and the US
\* magnitude times retaliatory_factor
C30_RetaliationOneStepLater ==
    \A k \in 1..Len(StepCalls) :
       /\ ActionInStep(k, "China")
             = ChinaAgent_rule_based([recent_actions |-> RecentBeforeStep(k)])
       /\ ActionInStep(k, "US").action_type = "tech_export_control" =>
             \E a \in Range(RecentBeforeStep(k)) :
                a.country = "China" /\ a.action_type = "tariff_increase"
       /\ (k > 1 /\ ActionInStep(k - 1, "US").action_type = "tariff_increase"
                 /\ ActionInStep(k - 1, "US").target_country = "China") =>
             /\ ActionInStep(k, "China").action_type = "tariff_increase"
             /\ ActionInStep(k, "China").target_country = "US"
             /\ ActionInStep(k, "China").sectors = ActionInStep(k - 1, "US").sectors
             /\ ActionInStep(k, "China").magnitude
                   = ActionInStep(k - 1, "US").magnitude * RetaliatoryFactor

\* the US, deciding before China, raised tariffs on China in the first
\* step; China retaliated in the second and not in the first
C30_Witness ==
    /\ Len(StepCalls) >= 2
    /\ countries[1] = "US"
    /\ ActionInStep(1, "US").action_type = "tariff_increase"
    /\ ActionInStep(1, "US").target_country = "China"
    /\ ActionInStep(1, "China").action_type = "investment"
    /\ ActionInStep(2, "China").action_type = "tariff_increase"

(***************************************************************************)
(* api/server.py: the registry active_simulations behind the endpoints.    *)
(* It is kept in run; a simulation id f"sim_{n}" is <<"sim", n>>.  An       *)
(* engine is known by the serial number of the start that built it and the *)
(* number of steps it has taken.                                           *)
(***************************************************************************)
active_simulations == run

SimId(n) == <<"sim", n>>

\* the ids requests are made for
SampleSimIds == {SimId(1), SimId(2), SimId(3), SimId(9)}

\* the country lists of the configurations posted: none, and two countries
SampleConfigs == {<<>>, <<"US", "China">>}

InitApi ==
    /\ state = SimulationState(<<>>, EmptyFn, 0, 0)
    /\ history = <<>> /\ countries = <<>>
    /\ current_year = 0 /\ current_quarter = 0
    /\ quarters_per_year = 4 /\ max_years = 0
    /\ agents = EmptyFn /\ triggered_events = {} /\ event_rng = 0
    /\ pc = "none" /\ error = "none"
    /\ run = EmptyFn
    /\ global_rng = 0
    /\ next_id = 1
    /\ calls = <<>>
    /\ last_call = [op |-> "init"]

\* what a request leaves behind: the registry, the call and its response
Responded(op, id, status, registry) ==
    /\ run' = registry
    /\ calls' = Append(calls, op)
    /\ last_call' = [op |-> op, id |-> id, status |-> status, pre |-> active_simulations]
    /\ UNCHANGED <<state, history, countries, current_year, current_quarter, quarters_per_year, max_years, agents, triggered_events, event_rng, global_rng, pc, error>>

\* POST /api/simulation/start: SimulationEngine raises for an empty country
\* list, which is answered with 500
start_simulation(sim_config) ==
    IF sim_config = <<>>
    THEN Responded("start_simulation", SimId(0), 500, active_simulations) /\ next_id' = next_id
    ELSE /\ Responded("start_simulation", SimId(Cardinality(DOMAIN active_simulations) + 1), 200,
                      Put(active_simulations, SimId(Cardinality(DOMAIN active_simulations) + 1),
                          [built |-> next_id, countries |-> sim_config, steps |-> 0]))
         /\ next_id' = next_id + 1

\* POST /api/simulation/{simulation_id}/step
step_simulation(simulation_id) ==
    /\ IF simulation_id \notin DOMAIN active_simulations
       THEN Responded("step_simulation", simulation_id, 404, active_simulations)
       ELSE Responded("step_simulation", simulation_id, 200,
                      [active_simulations EXCEPT ![simulation_id].steps = @ + 1])
    /\ next_id' = next_id

\* GET /api/simulation/{simulation_id}/state
get_simulation_state(simulation_id) ==
    /\ Responded("get_simulation_state", simulation_id,
                 IF simulation_id \in DOMAIN active_simulations THEN 200 ELSE 404,
                 active_simulations)
    /\ next_id' = next_id

\* GET /api/results/{simulation_id}
get_simulation_results(simulation_id) ==
    /\ Responded("get_simulation_results", simulation_id,
                 IF simulation_id \in DOMAIN active_simulations THEN 200 ELSE 404,
                 active_simulations)
    /\ next_id' = next_id

\* DELETE /api/simulation/{simulation_id}
delete_simulation(simulation_id) ==
    /\ IF simulation_id \notin DOMAIN active_simulations
       THEN Responded("delete_simulation", simulation_id, 404, active_simulations)
       ELSE Responded("delete_simulation", simulation_id, 200,
                      Pop(active_simulations, simulation_id))
    /\ next_id' = next_id

ApiStart == Len(calls) < MaxApiCalls /\ \E sim_config \in SampleConfigs : start_simulation(sim_config)

ApiStep == Len(calls) < MaxApiCalls /\ \E id \in SampleSimIds : step_simulation(id)

ApiState == Len(calls) < MaxApiCalls /\ \E id \in SampleSimIds : get_simulation_state(id)

ApiResults == Len(calls) < MaxApiCalls /\ \E id \in SampleSimIds : get_simulation_results(id)

ApiDelete == Len(calls) < MaxApiCalls /\ \E id \in SampleSimIds : delete_simulation(id)

NextApi == ApiStart \/ ApiStep \/ ApiState \/ ApiResults \/ ApiDelete

SpecApi == InitApi /\ [][NextApi]_vars

====
